---- MODULE Spec2Model ----
(***************************************************************************)
(* A model of krank's registry resolution, content fetch and text          *)
(* normalisation (src/src/krank/_registry.py, __init__.py, _corpus.py).    *)
(*                                                                         *)
(* Python values are records [t |-> <type name>, v |-> <payload>], so that *)
(* a non-string argument and None can be told from a string.  A Python     *)
(* dict is a record [order |-> <keys in insertion order>, map |-> <key to  *)
(* value>]: sorted() and ", ".join() depend on the order of the keys.      *)
(***************************************************************************)
EXTENDS Integers, Sequences, FiniteSets, TLC

(***************************************************************************)
(* Bounds of the model.                                                    *)
(***************************************************************************)
\* The catalog source is opened at most MaxReads times in a behaviour.
MaxReads == 2

(***************************************************************************)
(* Python values.                                                          *)
(***************************************************************************)
None == [t |-> "NoneType", v |-> "None"]
PyStr(s) == [t |-> "str", v |-> s]
PyInt(s) == [t |-> "int", v |-> s]
IsInstanceStr(x) == x.t = "str"
\* Python truthiness of a str / None argument: "" and None are falsy.
Truthy(x) == IF x.t = "str" THEN x.v # "" ELSE x.t # "NoneType"

(***************************************************************************)
(* Python's order on str is the lexicographic order of the code points.    *)
(* CodePoints lists them for every string that the model sorts.            *)
(***************************************************************************)
CodePoints ==
    [alpha |-> <<97, 108, 112, 104, 97>>,
     beta  |-> <<98, 101, 116, 97>>,
     gamma |-> <<103, 97, 109, 109, 97>>,
     dreams |-> <<100, 114, 101, 97, 109, 115>>,
     sleep |-> <<115, 108, 101, 101, 112>>,
     nope |-> <<110, 111, 112, 101>>]
    @@ ("1" :> <<49>>) @@ ("2" :> <<50>>) @@ ("10" :> <<49, 48>>) @@ ("3" :> <<51>>)

RECURSIVE SeqLess(_, _)
SeqLess(a, b) ==
    IF a = <<>> THEN b # <<>>
    ELSE IF b = <<>> THEN FALSE
    ELSE IF a[1] # b[1] THEN a[1] < b[1]
    ELSE SeqLess(Tail(a), Tail(b))

StrLess(a, b) == SeqLess(CodePoints[a], CodePoints[b])

\* insert x into the sorted sequence s (stable: after its equals)
RECURSIVE Insert(_, _)
Insert(x, s) ==
    IF s = <<>> THEN <<x>>
    ELSE IF StrLess(x, s[1]) THEN <<x>> \o s
    ELSE <<s[1]>> \o Insert(x, Tail(s))

\* sorted(keys): the keys in ascending str order
RECURSIVE Sorted(_)
Sorted(s) == IF s = <<>> THEN <<>> ELSE Insert(s[Len(s)], Sorted(SubSeq(s, 1, Len(s) - 1)))

Range(s) == {s[i] : i \in DOMAIN s}
IsSortedSeq(s) == \A i \in 1..(Len(s) - 1) : StrLess(s[i], s[i + 1])

(***************************************************************************)
(* Catalogs (the parsed content of data/registry.yaml).  A version record  *)
(* has the fields of a registry version: download_url, hash and doi.       *)
(* CatalogA is a well-formed catalog whose keys are not in sorted order in *)
(* the file; CatalogB declares a latest that is not one of its versions.   *)
(***************************************************************************)
Dict(order, map) == [order |-> order, map |-> map]
Keys(d) == Range(d.order)

VersionInfo(url, hash, doi) == [download_url |-> url, hash |-> hash, doi |-> doi]

\* column_map of an entry: canonical name -> name in the source file
ColumnMap ==
    [report |-> "Report Text", author |-> "Author ID", age |-> "Age", sex |-> "Sex"]

CorpusEntry(title, latest, versions) ==
    [krank_sources_repo |-> "repo", title |-> title, description |-> "a corpus",
     citations |-> <<"a citation">>, environment |-> "lab",
     probe |-> "serial awakening", includes_norecall |-> TRUE,
     column_map |-> ColumnMap, author_columns |-> <<"age", "sex">>,
     latest |-> latest, versions |-> versions]

CollectionEntry(title, url, corpora) ==
    [title |-> title, description |-> "a collection", url |-> url, corpora |-> corpora]

CatalogA ==
    [collections |-> Dict(<<"sleep", "dreams">>,
        [sleep |-> CollectionEntry("Sleep", "https://h/sleep", <<"beta">>),
         dreams |-> CollectionEntry("Dreams", "https://h/dreams", <<"alpha", "beta">>)]),
     corpora |-> Dict(<<"beta", "alpha">>,
        [alpha |-> CorpusEntry("Alpha", "10",
                     Dict(<<"2", "10">>,
                          ("2" :> VersionInfo("https://h/alpha2", "md5:aa", "10.1/a2"))
                          @@ ("10" :> VersionInfo("https://h/alpha10", "md5:bb", "10.1/a10")))),
         beta |-> CorpusEntry("Beta", "1",
                     Dict(<<"1">>, ("1" :> VersionInfo("https://h/beta1", "md5:bb", "10.1/b1"))))])]

CatalogB ==
    [collections |-> Dict(<<"dreams">>,
        [dreams |-> CollectionEntry("Dreams", "https://h/dreams", <<"alpha">>)]),
     corpora |-> Dict(<<"alpha", "gamma">>,
        [alpha |-> CorpusEntry("Alpha", "3",
                     Dict(<<"2">>, ("2" :> VersionInfo("https://h/alpha2", "md5:aa", "10.1/a2")))),
         gamma |-> CorpusEntry("Gamma", "1",
                     Dict(<<"1">>, ("1" :> VersionInfo("https://h/gamma1", "md5:aa", "10.1/g1"))))])]

Catalogs == {CatalogA, CatalogB}

\* What open() + yaml.safe_load() find at _REGISTRY_PATH.
RegistrySources ==
    {[state |-> "ok", doc |-> c] : c \in Catalogs}
    \cup {[state |-> s, doc |-> None] : s \in {"missing", "malformed", "empty"}}

\* faulty variant: no "is None" test, every call parses the source
LoadRegistry_NoCache(rc, src, nid) ==
    CASE src.state = "missing" ->
            [exc |-> "FileNotFoundError", ret |-> None, rc |-> rc, nid |-> nid, opened |-> 1]
      [] src.state = "malformed" ->
            [exc |-> "YAMLError", ret |-> None, rc |-> rc, nid |-> nid, opened |-> 1]
      [] src.state = "empty" ->
            [exc |-> "none", ret |-> None, rc |-> None, nid |-> nid, opened |-> 1]
      [] OTHER ->
            LET obj == [t |-> "dict", id |-> nid, v |-> src.doc]
            IN [exc |-> "none", ret |-> obj, rc |-> obj, nid |-> nid + 1, opened |-> 1]

(***************************************************************************)
(* _registry.load_registry.  rc is the module global _registry_cache, src  *)
(* the catalog source on disk, nid the identity the next parsed object     *)
(* gets.  The result carries the raised exception ("none" when the call    *)
(* returns), the returned reference, the new value of the global and the   *)
(* number of times the source was opened.                                  *)
(***************************************************************************)
LoadRegistry(rc, src, nid) ==
    IF rc = None
    THEN CASE src.state = "missing" ->
                [exc |-> "FileNotFoundError", ret |-> None, rc |-> None, nid |-> nid,
                 opened |-> 1]
           [] src.state = "malformed" ->
                [exc |-> "YAMLError", ret |-> None, rc |-> None, nid |-> nid,
                 opened |-> 1]
           [] src.state = "empty" ->
                \* safe_load of an empty document is None: nothing is cached
                [exc |-> "none", ret |-> None, rc |-> None, nid |-> nid, opened |-> 1]
           [] OTHER ->
                LET obj == [t |-> "dict", id |-> nid, v |-> src.doc]
                IN [exc |-> "none", ret |-> obj, rc |-> obj, nid |-> nid + 1,
                    opened |-> 1]
    ELSE [exc |-> "none", ret |-> rc, rc |-> rc, nid |-> nid, opened |-> 0]

(***************************************************************************)
(* Error messages: the text and the names it enumerates, in the order in   *)
(* which ", ".join() writes them.                                          *)
(***************************************************************************)
NoMsg == [text |-> "", about |-> "", available |-> <<>>]
Msg(text, about, available) == [text |-> text, about |-> about, available |-> available]

\* The outcome of load_registry as its callers log it (exception or reference).
LoadOutcome(L) == [exc |-> L.exc, ret |-> L.ret]

(***************************************************************************)
(* _registry.get_entry(name, version).  name is the str payload, version a *)
(* Python value (None or a str).  loads lists the outcomes of the          *)
(* load_registry calls made on the way.                                    *)
(***************************************************************************)
\* version = entry["latest"] when no version is asked for (faulty variant:
\* the first key of versions)
ResolveVersion_First(entry, version) ==
    IF version = None THEN entry.versions.order[1] ELSE version.v

ResolveVersion(entry, version) ==
    IF version = None THEN entry.latest ELSE version.v

\* ", ".join(sorted(versions.keys())) (faulty variant: without sorted)
AvailableVersions_Unsorted(versions) == versions.order

AvailableVersions(versions) == Sorted(versions.order)

AvailableCorpora(corpora) == Sorted(corpora.order)

\* the copy of the entry with the version's fields merged in and the nested
\* keys deleted (faulty variant: the hash of the latest version is merged)
MergeVersion_LatestHash(entry, ver) ==
    LET info == entry.versions.map[ver]
        hinfo == IF entry.latest \in Keys(entry.versions)
                 THEN entry.versions.map[entry.latest] ELSE info
        keys == ((DOMAIN entry) \cup {"version", "download_url", "hash"})
                   \ {"versions", "latest"}
    IN [k \in keys |->
          CASE k = "version" -> ver
            [] k = "download_url" -> info.download_url
            [] k = "hash" -> hinfo.hash
            [] OTHER -> entry[k]]

MergeVersion(entry, ver) ==
    LET info == entry.versions.map[ver]
        keys == ((DOMAIN entry) \cup {"version", "download_url", "hash"})
                   \ {"versions", "latest"}
    IN [k \in keys |->
          CASE k = "version" -> ver
            [] k = "download_url" -> info.download_url
            [] k = "hash" -> info.hash
            [] OTHER -> entry[k]]

\* a faulty variant: the entry of the cached catalog itself is updated
EntryCopied_InPlace(rc, name, merged) == [rc EXCEPT !.v.corpora.map[name] = merged]

\* entry = corpora[name].copy(): update() and del reach the copy, and the
\* cached catalog is what it was
EntryCopied(rc, name, merged) == rc

\* What a call that has made the load_registry call L returns or raises.
Outcome(L, e, r, m) ==
    [exc |-> e, ret |-> r, msg |-> m, rc |-> L.rc, nid |-> L.nid,
     opened |-> L.opened, loads |-> <<LoadOutcome(L)>>]

\* What a call that fails its argument checks raises, before any other call.
Early(e, m, rc, nid) ==
    [exc |-> e, ret |-> None, msg |-> m, rc |-> rc, nid |-> nid,
     opened |-> 0, loads |-> <<>>]

\* get_entry after its load_registry call L
GetEntryIn(L, name, version) ==
    IF L.exc # "none" THEN Outcome(L, L.exc, None, NoMsg)
    ELSE IF L.ret = None
    THEN Outcome(L, "TypeError", None, NoMsg)      \* None["corpora"]
    ELSE LET corpora == L.ret.v.corpora
         IN IF name \notin Keys(corpora)
            THEN Outcome(L, "KeyError", None,
                         Msg("Corpus not found", name, AvailableCorpora(corpora)))
            ELSE LET entry == corpora.map[name]
                     ver == ResolveVersion(entry, version)
                 IN IF ver \notin Keys(entry.versions)
                    THEN Outcome(L, "KeyError", None,
                                 Msg("Version not found", ver,
                                     AvailableVersions(entry.versions)))
                    ELSE [Outcome(L, "none", MergeVersion(entry, ver), NoMsg)
                             EXCEPT !.rc = EntryCopied(L.rc, name, MergeVersion(entry, ver))]

GetEntry(rc, src, nid, name, version) ==
    GetEntryIn(LoadRegistry(rc, src, nid), name, version)

(***************************************************************************)
(* krank.list_collections, list_corpora, list_versions.                    *)
(***************************************************************************)
ListIn(L, which) ==
    IF L.exc # "none" THEN Outcome(L, L.exc, None, NoMsg)
    ELSE IF L.ret = None THEN Outcome(L, "TypeError", None, NoMsg)
    ELSE Outcome(L, "none", Sorted(L.ret.v[which].order), NoMsg)

ListCollections(rc, src, nid) == ListIn(LoadRegistry(rc, src, nid), "collections")
ListCorpora(rc, src, nid) == ListIn(LoadRegistry(rc, src, nid), "corpora")

\* The argument checks shared by info, list_versions and load: the exception
\* raised for name, or "none".
CheckName(name) ==
    IF ~IsInstanceStr(name) THEN "TypeError"
    ELSE IF ~Truthy(name) THEN "ValueError"
    ELSE "none"

NameHint == Msg("Corpus name", "list_corpora", <<>>)
VersionHint == Msg("Version", "list_versions", <<>>)

ListVersionsIn(L, name) ==
    IF L.exc # "none" THEN Outcome(L, L.exc, None, NoMsg)
    ELSE IF L.ret = None THEN Outcome(L, "TypeError", None, NoMsg)
    ELSE IF name \notin Keys(L.ret.v.corpora)
    THEN Outcome(L, "KeyError", None,
                 Msg("Corpus not found", name, Sorted(L.ret.v.corpora.order)))
    ELSE Outcome(L, "none", Sorted(L.ret.v.corpora.map[name].versions.order), NoMsg)

ListVersions(rc, src, nid, name) ==
    IF CheckName(name) # "none"
    THEN Early(CheckName(name), NameHint, rc, nid)
    ELSE ListVersionsIn(LoadRegistry(rc, src, nid), name.v)

(***************************************************************************)
(* The content cache on disk and the download (pooch.retrieve).  A file is *)
(* its content; fs maps the paths that exist to their content.  The hash   *)
(* of a content is HashOf; the server's answer to one request is either a  *)
(* content or a transport error.                                           *)
(***************************************************************************)
Contents == {"c1", "c2"}
HashOf == [c1 |-> "md5:aa", c2 |-> "md5:bb"]
NetError == "neterr"
Served == Contents \cup {NetError}

\* f"{name}_v{entry['version']}.csv" under pooch.os_cache("krank")
CacheFilename(name, ver) == <<name, "_v", ver, ".csv">>

Exists(fs, path) == path \in DOMAIN fs
WriteFile(fs, path, c) == (path :> c) @@ fs
RemoveFile(fs, path) == [q \in (DOMAIN fs) \ {path} |-> fs[q]]

\* pooch.hashes.hash_matches: no known hash, no check
HashMatches(c, known_hash) == known_hash = None \/ PyStr(HashOf[c]) = known_hash

\* pooch.core.download_action
DownloadAction(fs, path, known_hash) ==
    IF ~Exists(fs, path) THEN "download"
    ELSE IF ~HashMatches(fs[path], known_hash) THEN "update"
    ELSE "fetch"

\* pooch.retrieve(url, known_hash, fname, path): the download goes to a
\* temporary file that is moved to fname only when its hash matches.
Retrieve(fs, url, known_hash, fname, served) ==
    IF DownloadAction(fs, fname, known_hash) = "fetch"
    THEN [exc |-> "none", ret |-> fname, fs |-> fs, requests |-> 0]
    ELSE IF served = NetError
    THEN [exc |-> "ConnectionError", ret |-> None, fs |-> fs, requests |-> 1]
    ELSE IF ~HashMatches(served, known_hash)
    THEN [exc |-> "ValueError", ret |-> None, fs |-> fs, requests |-> 1]
    ELSE [exc |-> "none", ret |-> fname, fs |-> WriteFile(fs, fname, served),
          requests |-> 1]

(***************************************************************************)
(* _registry.fetch_corpus(name, version).                                  *)
(***************************************************************************)
\* a result extended with the cache directory and the requests made
WithFs(R, newfs, requests) ==
    [exc |-> R.exc, ret |-> R.ret, msg |-> R.msg, rc |-> R.rc, nid |-> R.nid,
     opened |-> R.opened, loads |-> R.loads, fs |-> newfs, requests |-> requests]

\* known_hash=entry["hash"] (faulty variant: no known_hash is passed)
KnownHash_Missing(entry) == None

KnownHash(entry) == PyStr(entry["hash"])

\* fetch_corpus after its get_entry call E and, then, its pooch.retrieve call P
Fetched(E, P) ==
    [exc |-> P.exc, ret |-> P.ret, msg |-> NoMsg, rc |-> E.rc, nid |-> E.nid,
     opened |-> E.opened, loads |-> E.loads, fs |-> P.fs, requests |-> P.requests]

FetchCorpusIn(E, fs, name, served) ==
    IF E.exc # "none"
    THEN WithFs(E, fs, 0)
    ELSE Fetched(E, Retrieve(fs, E.ret["download_url"], KnownHash(E.ret),
                             CacheFilename(name, E.ret["version"]), served))

\* faulty variant: the version argument is not passed on to get_entry
FetchCorpus_IgnoreVersion(rc, src, nid, fs, name, version, served) ==
    FetchCorpusIn(GetEntry(rc, src, nid, name, None), fs, name, served)

FetchCorpus(rc, src, nid, fs, name, version, served) ==
    FetchCorpusIn(GetEntry(rc, src, nid, name, version), fs, name, served)

(***************************************************************************)
(* krank.load(name, version) and krank.info(name).  name and version are   *)
(* Python values of any type.                                              *)
(***************************************************************************)
\* faulty variant: the empty-string test on version is missing
CheckVersion_NoEmpty(version) ==
    IF version # None /\ ~IsInstanceStr(version) THEN "TypeError" ELSE "none"

CheckVersion(version) ==
    IF version # None /\ ~IsInstanceStr(version) THEN "TypeError"
    ELSE IF version # None /\ ~Truthy(version) THEN "ValueError"
    ELSE "none"

\* Corpus.__init__: stores its arguments; the table is not loaded
NewCorpus(name, metadata, path) ==
    [t |-> "Corpus", name |-> name, metadata |-> metadata, path |-> path, df |-> None]

\* load after its get_entry call E and its fetch_corpus call F
Loaded(E, F, name) ==
    [exc |-> F.exc,
     ret |-> IF F.exc = "none" THEN NewCorpus(name, E.ret, F.ret) ELSE None,
     msg |-> F.msg, rc |-> F.rc, nid |-> F.nid,
     opened |-> E.opened + F.opened, loads |-> E.loads \o F.loads,
     fs |-> F.fs, requests |-> F.requests]

LoadIn(E, src, fs, name, version, served) ==
    IF E.exc # "none"
    THEN WithFs(E, fs, 0)
    ELSE Loaded(E, FetchCorpus(E.rc, src, E.nid, fs, name, version, served), name)

Load(rc, src, nid, fs, name, version, served) ==
    IF CheckName(name) # "none"
    THEN WithFs(Early(CheckName(name), NameHint, rc, nid), fs, 0)
    ELSE IF CheckVersion(version) # "none"
    THEN WithFs(Early(CheckVersion(version), VersionHint, rc, nid), fs, 0)
    ELSE LoadIn(GetEntry(rc, src, nid, name.v, version), src, fs, name.v, version,
                served)

\* print(corpus) returns None
Printed(C) == [C EXCEPT !.ret = None]

Info(rc, src, nid, fs, name, served) ==
    IF CheckName(name) # "none"
    THEN WithFs(Early(CheckName(name), NameHint, rc, nid), fs, 0)
    ELSE Printed(Load(rc, src, nid, fs, name, None, served))

(***************************************************************************)
(* The text normalizer (_corpus._normalize_text).  A text is the sequence  *)
(* of its characters; a character is a one-character string, or the name   *)
(* of its code point when it is not ASCII.                                 *)
(***************************************************************************)
SP == " "
NL == "\n"
TAB == "\t"
DQ == "\""
SQ == "'"
DOT == "."
LDQ == "U+201C"     \* left double quotation mark
RDQ == "U+201D"     \* right double quotation mark
LSQ == "U+2018"     \* left single quotation mark
RSQ == "U+2019"     \* right single quotation mark
ELL == "U+2026"     \* horizontal ellipsis
FFFD == "U+FFFD"    \* replacement character

\* str.isspace / the regex class \s
IsSpace(c) == c \in {SP, NL, TAB}

\* a faulty variant: uncurl_quotes switched off
FixChar_KeepCurly(c) == c

\* ftfy.fix_text under _FTFY_CONFIG, on the characters of the model: the
\* curly quotes are replaced by straight quotes (uncurl_quotes=True)
FixChar(c) ==
    CASE c \in {LDQ, RDQ} -> DQ
      [] c \in {LSQ, RSQ} -> SQ
      [] OTHER -> c

FixText(s) == [i \in DOMAIN s |-> FixChar(s[i])]

\* str.replace("…", "...")
RECURSIVE ReplaceEllipsis(_)
ReplaceEllipsis(s) ==
    IF s = <<>> THEN <<>>
    ELSE (IF s[1] = ELL THEN <<DOT, DOT, DOT>> ELSE <<s[1]>>) \o ReplaceEllipsis(Tail(s))

\* str.replace(r"\s+", " ", regex=True): every run of whitespace becomes one space
RECURSIVE CollapseWhitespace(_)
CollapseWhitespace(s) ==
    IF s = <<>> THEN <<>>
    ELSE IF IsSpace(s[1])
    THEN IF Len(s) > 1 /\ IsSpace(s[2])
         THEN CollapseWhitespace(Tail(s))
         ELSE <<SP>> \o CollapseWhitespace(Tail(s))
    ELSE <<s[1]>> \o CollapseWhitespace(Tail(s))

\* str.strip()
RECURSIVE LStrip(_)
LStrip(s) == IF s # <<>> /\ IsSpace(s[1]) THEN LStrip(Tail(s)) ELSE s

RECURSIVE RStrip(_)
RStrip(s) ==
    IF s # <<>> /\ IsSpace(s[Len(s)]) THEN RStrip(SubSeq(s, 1, Len(s) - 1)) ELSE s

Strip(s) == RStrip(LStrip(s))

\* the regex "." matches every character but the newline
AllDot(s) == \A i \in DOMAIN s : s[i] # NL

\* a faulty variant of the pattern: a second ["'] in place of \1
StripSurroundingQuotes_AnyPair(s) ==
    IF Len(s) >= 3 /\ s[1] \in {DQ, SQ} /\ s[Len(s)] \in {DQ, SQ}
       /\ AllDot(SubSeq(s, 2, Len(s) - 1))
    THEN SubSeq(s, 2, Len(s) - 1)
    ELSE s

\* str.replace(r'^(["\'])(.+)\1$', r"\2", regex=True): group 1 is the first
\* character, group 2 at least one character, \1 the same quote again, at
\* the end of the text ($ also matches before a final newline, which stays)
StripSurroundingQuotes(s) ==
    IF s = <<>> \/ s[1] \notin {DQ, SQ} THEN s
    ELSE IF Len(s) >= 3 /\ s[Len(s)] = s[1] /\ AllDot(SubSeq(s, 2, Len(s) - 1))
    THEN SubSeq(s, 2, Len(s) - 1)
    ELSE IF Len(s) >= 4 /\ s[Len(s)] = NL /\ s[Len(s) - 1] = s[1]
            /\ AllDot(SubSeq(s, 2, Len(s) - 2))
    THEN SubSeq(s, 2, Len(s) - 2) \o <<NL>>
    ELSE s

\* a faulty variant: the second strip() is missing
NormalizeReport_NoFinalStrip(s) ==
    StripSurroundingQuotes(Strip(CollapseWhitespace(ReplaceEllipsis(FixText(s)))))

\* the rewrites of one report, in the order of the code
NormalizeReport(s) ==
    Strip(StripSurroundingQuotes(Strip(CollapseWhitespace(ReplaceEllipsis(FixText(s))))))

\* _normalize_text(df, "report") on the report column of df: the rows that
\* contain U+FFFD are counted for the warning, the empty rows for the error
Contains(s, c) == \E i \in DOMAIN s : s[i] = c

\* a faulty variant: the characters are counted, not the rows
ReplacementCount_Chars(rows) ==
    Cardinality(UNION {{<<i, j>> : j \in {k \in DOMAIN rows[i] : rows[i][k] = FFFD}} :
                          i \in DOMAIN rows})

\* str.contains("\ufffd").sum(): the number of rows with a replacement character
ReplacementCount(rows) == Cardinality({i \in DOMAIN rows : Contains(rows[i], FFFD)})
\* (df[text_column] == "").sum()
EmptyCount(rows) == Cardinality({i \in DOMAIN rows : rows[i] = <<>>})

\* warnings.warn(...) when replacement_count > 0: the warnings of the call,
\* each by the count its message names
Warnings(rows) ==
    IF ReplacementCount(rows) > 0 THEN <<ReplacementCount(rows)>> ELSE <<>>

\* a faulty variant: the empty reports are dropped and the rest returned
Normalized_DropEmpty(rows) ==
    [exc |-> "none",
     ret |-> SelectSeq(rows, LAMBDA r : r # <<>>),
     replacement_count |-> ReplacementCount(rows),
     warnings |-> Warnings(rows),
     empty_count |-> EmptyCount(rows)]

\* the checks on the rewritten column: the warning, then the ValueError whose
\* message names empty_count, or the copy returned
Normalized(rows) ==
    [exc |-> IF EmptyCount(rows) > 0 THEN "ValueError" ELSE "none",
     ret |-> IF EmptyCount(rows) > 0 THEN <<>> ELSE rows,
     replacement_count |-> ReplacementCount(rows),
     warnings |-> Warnings(rows),
     empty_count |-> EmptyCount(rows)]

NormalizeText(df) == Normalized([i \in DOMAIN df |-> NormalizeReport(df[i])])

(***************************************************************************)
(* Tables (pandas.DataFrame): the column names in order, the row index and *)
(* the rows, each a function from the column names to the cell values.     *)
(***************************************************************************)
Table(columns, index, rows) == [columns |-> columns, index |-> index, rows |-> rows]
DenseIndex(n) == [i \in 1..n |-> i - 1]
NoResult(e) == [exc |-> e, ret |-> None]
Result(t) == [exc |-> "none", ret |-> t]

\* pd.read_csv(path): the table of the file, with a fresh RangeIndex
Missing == [state |-> "missing", columns |-> <<>>, rows |-> <<>>]
CsvFile(columns, rows) == [state |-> "file", columns |-> columns, rows |-> rows]
ReadCsv(file) ==
    IF file.state = "missing" THEN NoResult("FileNotFoundError")
    ELSE Result(Table(file.columns, DenseIndex(Len(file.rows)), file.rows))

\* df.rename(columns={v: k for k, v in column_map.items()})
Renamed(column_map, c) ==
    IF \E k \in DOMAIN column_map : column_map[k] = c
    THEN CHOOSE k \in DOMAIN column_map : column_map[k] = c
    ELSE c
RenamedColumns(column_map, columns) ==
    [i \in DOMAIN columns |-> Renamed(column_map, columns[i])]
RenamedRow(column_map, columns, row) ==
    [c \in Range(RenamedColumns(column_map, columns)) |->
        row[CHOOSE o \in Range(columns) : Renamed(column_map, o) = c]]
Rename(t, column_map) ==
    Table(RenamedColumns(column_map, t.columns), t.index,
          [i \in DOMAIN t.rows |-> RenamedRow(column_map, t.columns, t.rows[i])])

\* _normalize_text(df, "report") on a table: the report column is rewritten
\* in a copy; the table of the call's outcome is the copy
ReportColumn(t) == [i \in DOMAIN t.rows |-> t.rows[i]["report"]]
WithReports(t, N) ==
    [exc |-> N.exc, warnings |-> N.warnings, empty_count |-> N.empty_count,
     ret |-> IF N.exc # "none" THEN None
             ELSE Table(t.columns, t.index,
                        [i \in DOMAIN t.rows |-> [t.rows[i] EXCEPT !["report"] = N.ret[i]]])]
NormalizeTable(t) ==
    IF "report" \notin Range(t.columns)
    THEN [exc |-> "ValueError", warnings |-> <<>>, empty_count |-> 0, ret |-> None]
    ELSE WithReports(t, NormalizeText(ReportColumn(t)))

\* df.drop(columns=cols)
Drop(t, cols) ==
    IF ~(Range(cols) \subseteq Range(t.columns)) THEN NoResult("KeyError")
    ELSE Result(Table(SelectSeq(t.columns, LAMBDA c : c \notin Range(cols)), t.index,
                      [i \in DOMAIN t.rows |->
                          [c \in Range(t.columns) \ Range(cols) |-> t.rows[i][c]]]))

\* df[cols]
Project(t, cols) ==
    IF ~(Range(cols) \subseteq Range(t.columns)) THEN NoResult("KeyError")
    ELSE Result(Table(cols, t.index,
                      [i \in DOMAIN t.rows |-> [c \in Range(cols) |-> t.rows[i][c]]]))

\* df.drop_duplicates(): the first of the rows that are equal in every
\* column is kept, with its index label
\* a faulty variant: drop_duplicates(keep=False)
FirstOfItsKind_Only(t, i) == \A j \in (DOMAIN t.rows) \ {i} : t.rows[j] # t.rows[i]

FirstOfItsKind(t, i) == \A j \in 1..(i - 1) : t.rows[j] # t.rows[i]
RECURSIVE KeptPositions(_, _)
KeptPositions(t, i) ==
    IF i > Len(t.rows) THEN <<>>
    ELSE (IF FirstOfItsKind(t, i) THEN <<i>> ELSE <<>>) \o KeptPositions(t, i + 1)
Take(t, pos) ==
    Table(t.columns, [k \in DOMAIN pos |-> t.index[pos[k]]],
          [k \in DOMAIN pos |-> t.rows[pos[k]]])

\* a faulty variant: drop_duplicates(subset=["author"])
DropDuplicates_ByAuthor(t) ==
    Take(t, SelectSeq([i \in DOMAIN t.rows |-> i],
                      LAMBDA i : \A j \in 1..(i - 1) :
                                    t.rows[j]["author"] # t.rows[i]["author"]))

DropDuplicates(t) == Take(t, KeptPositions(t, 1))

\* a faulty variant: the index labels of the kept rows stay
ResetIndex_Keep(t) == t

\* df.reset_index(drop=True)
ResetIndex(t) == Table(t.columns, DenseIndex(Len(t.rows)), t.rows)

(***************************************************************************)
(* The pandera schemas of _schemas.py.  The cells of the model are never   *)
(* null and have the types the schemas coerce to, so validate() checks     *)
(* the required columns and the uniqueness of author.                      *)
(***************************************************************************)
HasColumns(t, cols) == cols \subseteq Range(t.columns)
UniqueIn(t, c) ==
    \A i, j \in DOMAIN t.rows : t.rows[i][c] = t.rows[j][c] => i = j

\* Field(nullable=False): a null cell is a row without a value for the column
NoNulls(t, c) == \A i \in DOMAIN t.rows : c \in DOMAIN t.rows[i]

\* a faulty variant: report declared with nullable=True
ValidateReports_NullableReport(t) ==
    IF HasColumns(t, {"author", "report"}) /\ NoNulls(t, "author")
    THEN Result(t)
    ELSE NoResult("SchemaError")

\* ReportsSchema.validate(df): author and report required and not null,
\* other columns allowed; no check looks at the text of a report
ValidateReports(t) ==
    IF HasColumns(t, {"author", "report"}) /\ NoNulls(t, "author") /\ NoNulls(t, "report")
    THEN Result(t)
    ELSE NoResult("SchemaError")

\* a faulty variant: author declared with unique=False
ValidateAuthors_NotUnique(t) ==
    IF HasColumns(t, {"author"}) /\ NoNulls(t, "author")
    THEN Result(t)
    ELSE NoResult("SchemaError")

\* AuthorsSchema.validate(df): author required, not null and unique, others
\* allowed
ValidateAuthors(t) ==
    IF HasColumns(t, {"author"}) /\ NoNulls(t, "author") /\ UniqueIn(t, "author")
    THEN Result(t)
    ELSE NoResult("SchemaError")

\* AggregateReportsSchema.validate(df): strict, exactly corpus, author and
\* report, none of them null
ValidateAggregate(t) ==
    IF Range(t.columns) = {"corpus", "author", "report"}
       /\ NoNulls(t, "corpus") /\ NoNulls(t, "author") /\ NoNulls(t, "report")
    THEN Result(t)
    ELSE NoResult("SchemaError")

(***************************************************************************)
(* The methods of Corpus.  memo is the value of self._df (None or the      *)
(* memoized table), metadata the dict given to the constructor and file    *)
(* what is at self._path.  An outcome carries what the call raised or      *)
(* returned, the value it left in self._df, and how many times it called   *)
(* pd.read_csv and _normalize_text.                                        *)
(***************************************************************************)
Access(e, r, memo, reads, norms) ==
    [exc |-> e, ret |-> r, memo |-> memo, reads |-> reads, norms |-> norms]
Fail(L, e) == [L EXCEPT !.exc = e, !.ret = None]
Returned(L, V) == [L EXCEPT !.exc = V.exc, !.ret = V.ret]
HasKey(metadata, k) == k \in DOMAIN metadata

\* Corpus._load: self._df is assigned when read_csv, the column_map lookup
\* and _normalize_text have all returned
LoadNormalized(N) ==
    IF N.exc # "none" THEN Access(N.exc, None, None, 1, 1)
    ELSE Access("none", N.ret, N.ret, 1, 1)

\* a faulty variant: self._df is assigned as soon as the file is read
LoadRead_AssignFirst(R, metadata) ==
    IF R.exc # "none" THEN Access(R.exc, None, None, 1, 0)
    ELSE IF ~HasKey(metadata, "column_map") THEN Access("KeyError", None, R.ret, 1, 0)
    ELSE [LoadNormalized(NormalizeTable(Rename(R.ret, metadata["column_map"])))
             EXCEPT !.memo = IF @ = None THEN R.ret ELSE @]

LoadRead(R, metadata) ==
    IF R.exc # "none" THEN Access(R.exc, None, None, 1, 0)
    ELSE IF ~HasKey(metadata, "column_map") THEN Access("KeyError", None, None, 1, 0)
    ELSE LoadNormalized(NormalizeTable(Rename(R.ret, metadata["column_map"])))

\* a faulty variant: the table is read again although self._df is set
LoadDf_NoMemo(memo, metadata, file) == LoadRead(ReadCsv(file), metadata)

LoadDf(memo, metadata, file) ==
    IF memo # None THEN Access("none", memo, memo, 0, 0)
    ELSE LoadRead(ReadCsv(file), metadata)

\* Corpus.reports
ReportsValidated(L, D) ==
    IF D.exc # "none" THEN Fail(L, D.exc) ELSE Returned(L, ValidateReports(D.ret))

ReportsOf(L, metadata) ==
    IF L.exc # "none" THEN L
    ELSE IF ~HasKey(metadata, "author_columns") THEN Fail(L, "KeyError")
    ELSE ReportsValidated(L, Drop(L.ret, metadata["author_columns"]))

CorpusReports(memo, metadata, file) == ReportsOf(LoadDf(memo, metadata, file), metadata)

\* Corpus.authors
AuthorsValidated(L, P) ==
    IF P.exc # "none" THEN Fail(L, P.exc)
    ELSE Returned(L, ValidateAuthors(ResetIndex(DropDuplicates(P.ret))))

AuthorsOf(L, metadata) ==
    IF L.exc # "none" THEN L
    ELSE IF ~HasKey(metadata, "author_columns") THEN Fail(L, "KeyError")
    ELSE AuthorsValidated(L, Project(L.ret, <<"author">> \o metadata["author_columns"]))

CorpusAuthors(memo, metadata, file) == AuthorsOf(LoadDf(memo, metadata, file), metadata)

\* Corpus.n_reports, Corpus.n_authors: len() of the view
LenOf(V) == IF V.exc # "none" THEN V ELSE [V EXCEPT !.ret = Len(V.ret.rows)]
CorpusNReports(memo, metadata, file) == LenOf(CorpusReports(memo, metadata, file))
CorpusNAuthors(memo, metadata, file) == LenOf(CorpusAuthors(memo, metadata, file))

\* Corpus.path, Corpus.__repr__, Corpus.__str__
CorpusPath(memo, path) == Access("none", path, memo, 0, 0)
CorpusRepr(memo, name) == Access("none", <<"Corpus('", name, "')">>, memo, 0, 0)
CorpusStr(memo, name, metadata) ==
    IF ~({"title", "description", "version"} \subseteq DOMAIN metadata)
    THEN Access("KeyError", None, memo, 0, 0)
    ELSE Access("none",
                <<"Corpus: ", name, "  Title: ", metadata["title"],
                  "  Description: ", metadata["description"],
                  "  Version: ", metadata["version"]>>, memo, 0, 0)

(***************************************************************************)
(* The state of one process using the library.                             *)
(***************************************************************************)
VARIABLES
    registrySource,   \* what is on disk at _REGISTRY_PATH
    registryCache,    \* the module global _registry_cache
    nextId,           \* identity of the next object yaml.safe_load creates
    fs,               \* the content cache directory: path -> content
    last,             \* the last call: its arguments, outcome and I/O
    reads,            \* how many times the catalog source has been opened
    firstLoad,        \* outcome of the first load_registry call of the process
    loadRefs,         \* the references load_registry has returned so far
    df,               \* the report column the normalizer was last given
    out,              \* what that _normalize_text call returned or raised
    passes,           \* how many times the column has been normalized
    corpus,           \* a Corpus instance: name, metadata, path and _df
    heap,             \* the tables in memory, by object identity
    rawFile,          \* what is at the path of the Corpus
    acc,              \* the last access to the Corpus and its outcome
    hist,             \* counts of the I/O of the Corpus and its first views
    held,             \* the tables the caller has been handed
    checked,          \* the last table given to a schema and the outcome
    lint,             \* the last run of scripts/validate_registry.py
    aggregate,        \* the runs of scripts/build_aggregate.py and its output
    threads           \* the threads inside load_registry: position and locals

registryVars ==
    <<registrySource, registryCache, nextId, fs, last, reads, firstLoad, loadRefs>>
normVars == <<df, out, passes>>
corpusVars == <<corpus, heap, rawFile, acc, hist, held>>
toolVars == <<checked, lint, aggregate, threads>>
vars == <<registryVars, normVars, corpusVars, toolVars>>

NoLoad == [exc |-> "unset", ret |-> None]

\* Arguments the calls are tried with.
NameStrs == {"alpha", "nope"}
VersionStrs == {"1", "2", "10"}
NameArgs == {PyStr(n) : n \in NameStrs} \cup {PyStr(""), PyInt("123")}
VersionArgsStr == {None} \cup {PyStr(v) : v \in VersionStrs}
LoadVersionArgs == {None, PyStr("10"), PyStr("1"), PyStr(""), PyInt("123")}
\* The cache files the environment may touch.
EnvPaths == {CacheFilename("alpha", v) : v \in {"2", "10"}}

Call(op, name, version, served, R) ==
    [op |-> op, name |-> name, version |-> version,
     served |-> IF R.requests > 0 THEN served ELSE NetError,
     exc |-> R.exc, ret |-> R.ret, msg |-> R.msg,
     opened |-> R.opened, requests |-> R.requests]

\* A call returns or raises: the globals, the disk and the log take the
\* values the call left.
Commit(op, name, version, served, R) ==
    /\ reads + R.opened <= MaxReads
    /\ registryCache' = R.rc
    /\ nextId' = R.nid
    /\ fs' = R.fs
    /\ reads' = reads + R.opened
    /\ last' = Call(op, name, version, served, R)
    /\ firstLoad' = IF firstLoad = NoLoad /\ R.loads # <<>> THEN R.loads[1] ELSE firstLoad
    /\ loadRefs' = loadRefs \cup {R.loads[i].ret : i \in {j \in DOMAIN R.loads : R.loads[j].exc = "none"}}
    /\ UNCHANGED registrySource
    /\ UNCHANGED normVars
    /\ UNCHANGED corpusVars
    /\ UNCHANGED toolVars

\* no report column has been normalized
NoOutcome ==
    [exc |-> "unset", ret |-> <<>>, replacement_count |-> 0, warnings |-> <<>>,
     empty_count |-> 0]
NormIdle == df = <<>> /\ out = NoOutcome /\ passes = 0

\* no Corpus has been used: an instance over a missing file, just constructed
NoMetadata == [k \in {} |-> k]
NoAccess == [op |-> "new", exc |-> "none", ret |-> None, table |-> None]
NoHist ==
    [reads |-> 0, norms |-> 0, calls |-> 0, views |-> 0, loaded |-> 0,
     firstReports |-> None, firstAuthors |-> None]
Constructed(name, metadata, path) ==
    /\ corpus = [name |-> name, metadata |-> metadata, path |-> path, df |-> 0]
    /\ heap = <<>>
    /\ acc = NoAccess
    /\ hist = NoHist
    /\ held = {}
CorpusIdle == Constructed("test", NoMetadata, "/tmp/test.csv") /\ rawFile = Missing

\* no schema has been applied, no script has run, no thread has started
NoCheck == [schema |-> "none", table |-> None, exc |-> "none", ret |-> None]
NoExit == 0 - 1
NoLint == [source |-> None, exc |-> "none", exit |-> NoExit, ran |-> <<>>, listed |-> <<>>]
NoAggregate == [runs |-> 0, exc |-> "none", output |-> None, parts |-> <<>>]
NoThreads == <<>>
ToolsIdle ==
    /\ checked = NoCheck
    /\ lint = NoLint
    /\ aggregate = NoAggregate
    /\ threads = NoThreads

RegistryInit ==
    /\ registrySource \in RegistrySources
    /\ registryCache = None
    /\ nextId = 1
    /\ fs = <<>>
    /\ last = [op |-> "start", name |-> None, version |-> None, served |-> NetError,
               exc |-> "none", ret |-> None, msg |-> NoMsg, opened |-> 0, requests |-> 0]
    /\ reads = 0
    /\ firstLoad = NoLoad
    /\ loadRefs = {}

Init == RegistryInit /\ NormIdle /\ CorpusIdle /\ ToolsIdle

\* a direct load_registry call: what it returns or raises
Direct(L) == Outcome(L, L.exc, L.ret, NoMsg)

CallLoadRegistry ==
    Commit("load_registry", None, None, NetError,
           WithFs(Direct(LoadRegistry(registryCache, registrySource, nextId)), fs, 0))

CallGetEntry ==
    \E n \in NameStrs, v \in VersionArgsStr :
        Commit("get_entry", PyStr(n), v, NetError,
               WithFs(GetEntry(registryCache, registrySource, nextId, n, v), fs, 0))

CallListCollections ==
    Commit("list_collections", None, None, NetError,
           WithFs(ListCollections(registryCache, registrySource, nextId), fs, 0))

CallListCorpora ==
    Commit("list_corpora", None, None, NetError,
           WithFs(ListCorpora(registryCache, registrySource, nextId), fs, 0))

CallListVersions ==
    \E n \in NameArgs :
        Commit("list_versions", n, None, NetError,
               WithFs(ListVersions(registryCache, registrySource, nextId, n), fs, 0))

CallFetchCorpus ==
    \E n \in NameStrs, v \in VersionArgsStr, served \in Served :
        Commit("fetch_corpus", PyStr(n), v, served,
               FetchCorpus(registryCache, registrySource, nextId, fs, n, v, served))

CallLoad ==
    \E n \in NameArgs, v \in LoadVersionArgs, served \in Served :
        Commit("load", n, v, served,
               Load(registryCache, registrySource, nextId, fs, n, v, served))

CallInfo ==
    \E n \in NameArgs, served \in Served :
        Commit("info", n, None, served,
               Info(registryCache, registrySource, nextId, fs, n, served))

(***************************************************************************)
(* The environment: the cache directory is an ordinary directory (a file   *)
(* can be damaged, replaced or deleted), and a broken catalog source can be *)
(* repaired (the package reinstalled).                                     *)
(***************************************************************************)
EnvStep(op, path, newfs, newsrc) ==
    /\ fs' = newfs
    /\ registrySource' = newsrc
    /\ last' = [op |-> op, name |-> None, version |-> None, served |-> NetError,
                exc |-> "none", ret |-> path, msg |-> NoMsg, opened |-> 0,
                requests |-> 0]
    /\ UNCHANGED <<registryCache, nextId, reads, firstLoad, loadRefs>>
    /\ UNCHANGED normVars
    /\ UNCHANGED corpusVars
    /\ UNCHANGED toolVars

CorruptCacheFile ==
    \E p \in EnvPaths, c \in Contents :
        /\ IF Exists(fs, p) THEN fs[p] # c ELSE TRUE
        /\ EnvStep("corrupt", p, WriteFile(fs, p, c), registrySource)

DeleteCacheFile ==
    \E p \in EnvPaths :
        /\ Exists(fs, p)
        /\ EnvStep("delete", p, RemoveFile(fs, p), registrySource)

RepairRegistrySource ==
    \E s \in RegistrySources :
        /\ registrySource.state # "ok"
        /\ s.state = "ok"
        /\ EnvStep("write_registry", None, fs, s)

Next ==
    \/ CallLoadRegistry
    \/ CallGetEntry
    \/ CallListCollections
    \/ CallListCorpora
    \/ CallListVersions
    \/ CallFetchCorpus
    \/ CallLoad
    \/ CallInfo
    \/ CorruptCacheFile
    \/ DeleteCacheFile
    \/ RepairRegistrySource

Spec == Init /\ [][Next]_vars

(***************************************************************************)
(* The normalizer applied to report columns: every text of at most MaxLen  *)
(* characters of Alphabet and every text of at most MaxQuoteLen characters *)
(* of QuoteAlphabet, as a column of one row.  The column a call returns is *)
(* normalized again, up to MaxPasses calls.                                *)
(***************************************************************************)
MaxLen == 4
MaxQuoteLen == 5
MaxPasses == 2

MaxRows == 3

Alphabet == {"a", SP, NL, TAB, DQ, SQ, LDQ, RDQ, LSQ, RSQ, ELL, FFFD}
QuoteAlphabet == {"a", SP, DQ, SQ}
Texts(A, n) == UNION {[1..k -> A] : k \in 0..n}
Reports == Texts(Alphabet, MaxLen) \cup Texts(QuoteAlphabet, MaxQuoteLen)

\* the report column of scenario 1: "  Dream 3  ", "Text\nwith\nnewlines" and
\* the curly-quoted word Quoted followed by " whole string"
Scenario1 ==
    << <<SP, SP, "D", "r", "e", "a", "m", SP, "3", SP, SP>>,
       <<"T", "e", "x", "t", NL, "w", "i", "t", "h", NL,
         "n", "e", "w", "l", "i", "n", "e", "s">>,
       <<LDQ, "Q", "u", "o", "t", "e", "d", RDQ, SP,
         "w", "h", "o", "l", "e", SP, "s", "t", "r", "i", "n", "g">> >>

\* reports of the rows of a longer column: plain, blank, quoted blank, with
\* one and with two replacement characters
RowReports ==
    {<<"a">>, <<SP, SP, SP>>, <<DQ, SP, DQ>>, <<"a", FFFD>>, <<FFFD, SP, FFFD>>}

Columns ==
    {<<s>> : s \in Reports} \cup {Scenario1}
        \cup UNION {[1..n -> RowReports] : n \in 2..MaxRows}

RegistryIdle ==
    /\ registrySource = [state |-> "missing", doc |-> None]
    /\ registryCache = None
    /\ nextId = 1
    /\ fs = <<>>
    /\ last = [op |-> "start", name |-> None, version |-> None, served |-> NetError,
               exc |-> "none", ret |-> None, msg |-> NoMsg, opened |-> 0, requests |-> 0]
    /\ reads = 0
    /\ firstLoad = NoLoad
    /\ loadRefs = {}

NormInit ==
    /\ RegistryIdle
    /\ CorpusIdle
    /\ ToolsIdle
    /\ df \in Columns
    /\ out = NoOutcome
    /\ passes = 0

\* _normalize_text(df, "report") on the column as loaded
NormalizeColumn ==
    /\ passes = 0
    /\ out' = NormalizeText(df)
    /\ passes' = 1
    /\ UNCHANGED df
    /\ UNCHANGED registryVars
    /\ UNCHANGED corpusVars
    /\ UNCHANGED toolVars

\* _normalize_text on the column the previous call returned
NormalizeAgain ==
    /\ passes >= 1
    /\ passes < MaxPasses
    /\ out.exc = "none"
    /\ df' = out.ret
    /\ out' = NormalizeText(out.ret)
    /\ passes' = passes + 1
    /\ UNCHANGED registryVars
    /\ UNCHANGED corpusVars
    /\ UNCHANGED toolVars

NormNext == NormalizeColumn \/ NormalizeAgain

SpecNorm == NormInit /\ [][NormNext]_vars

(***************************************************************************)
(* One Corpus instance and its caller.  The raw file has at most           *)
(* MaxFileRows rows drawn from FileRows; the caller makes at most          *)
(* MaxAccesses accesses, may change the tables it was handed, and the      *)
(* file may disappear from the cache directory.                            *)
(***************************************************************************)
MaxFileRows == 3
MaxAccesses == 3

RawColumns == <<"Report Text", "Author ID", "Age", "Sex", "night">>
RawRow(report, author, age, sex, night) ==
    ("Report Text" :> report) @@ ("Author ID" :> author) @@ ("Age" :> age)
        @@ ("Sex" :> sex) @@ ("night" :> night)

\* two reports of A1, one of A2, A1 again with another age, a blank report
FileRows ==
    {RawRow(<<"a">>, "A1", 25, "M", 1),
     RawRow(<<SP, "b", SP, SP, "c", NL>>, "A1", 25, "M", 2),
     RawRow(<<LDQ, "a", RDQ>>, "A2", 30, "F", 1),
     RawRow(<<"a">>, "A1", 26, "M", 1),
     RawRow(<<SP, SP>>, "A2", 30, "F", 1)}

\* a file that already has the canonical column names, and one with no
\* report column
CanonicalFile ==
    CsvFile(<<"report", "author">>,
            << ("report" :> <<SP, "a", SP>>) @@ ("author" :> "X1") >>)
NoReportFile ==
    CsvFile(<<"Author ID", "Age">>, << ("Author ID" :> "A1") @@ ("Age" :> 25) >>)

RawFiles ==
    {Missing, CanonicalFile, NoReportFile}
        \cup {CsvFile(RawColumns, rows) :
                 rows \in UNION {[1..n -> FileRows] : n \in 1..MaxFileRows}}

Described ==
    [title |-> "Test", description |-> "a corpus", version |-> "1", doi |-> "10.1/t"]
Metadatas ==
    {Described @@ [column_map |-> ColumnMap, author_columns |-> <<"age", "sex">>],
     Described @@ [column_map |-> ColumnMap, author_columns |-> <<"age">>],
     Described @@ [column_map |-> ColumnMap],
     [author_columns |-> <<>>],
     NoMetadata}

CorpusInit ==
    /\ RegistryIdle
    /\ NormIdle
    /\ ToolsIdle
    /\ rawFile \in RawFiles
    /\ \E m \in Metadatas : Constructed("test", m, "/tmp/test.csv")

\* self._df, as a value
Memo == IF corpus.df = 0 THEN None ELSE heap[corpus.df]

\* self._df = df binds the attribute to the table _load has just built
Assigned(A) == A.reads > 0 /\ A.memo # None
HeapAfterLoad(A) == IF Assigned(A) THEN Append(heap, A.memo) ELSE heap
DfAfterLoad(A) == IF Assigned(A) THEN Len(heap) + 1 ELSE corpus.df

\* a faulty variant: the view is the memoized table itself
ReturnedRef_Memo(h, dfref) == dfref

\* drop(...).copy(), df[cols].drop_duplicates().reset_index(drop=True) and
\* validate() with coerce build a new table: the object a view returns
ReturnedRef(h, dfref) == Len(h) + 1

Store(h, ref, t) == IF ref \in DOMAIN h THEN [h EXCEPT ![ref] = t] ELSE Append(h, t)

ViewOps == {"reports", "authors", "n_reports", "n_authors"}
Counted(op, A) ==
    [reads |-> hist.reads + A.reads,
     norms |-> hist.norms + A.norms,
     calls |-> hist.calls + 1,
     views |-> IF op \in ViewOps THEN hist.views + 1 ELSE hist.views,
     loaded |-> IF Assigned(A) THEN hist.loaded + 1 ELSE hist.loaded,
     firstReports |-> IF op = "reports" /\ A.exc = "none" /\ hist.firstReports = None
                      THEN A.ret ELSE hist.firstReports,
     firstAuthors |-> IF op = "authors" /\ A.exc = "none" /\ hist.firstAuthors = None
                      THEN A.ret ELSE hist.firstAuthors]

\* an access that hands a table to the caller, or raises
ViewCommit(op, A, h, dfref) ==
    /\ hist.calls < MaxAccesses
    /\ corpus' = [corpus EXCEPT !.df = dfref]
    /\ hist' = Counted(op, A)
    /\ IF A.exc = "none"
       THEN /\ heap' = Store(h, ReturnedRef(h, dfref), A.ret)
            /\ held' = held \cup {ReturnedRef(h, dfref)}
            /\ acc' = [op |-> op, exc |-> "none", ret |-> ReturnedRef(h, dfref),
                       table |-> A.ret]
       ELSE /\ heap' = h
            /\ held' = held
            /\ acc' = [op |-> op, exc |-> A.exc, ret |-> None, table |-> None]
    /\ UNCHANGED rawFile
    /\ UNCHANGED <<registryVars, normVars, toolVars>>

\* an access that returns a plain value, or raises
ValueCommit(op, A, h, dfref) ==
    /\ hist.calls < MaxAccesses
    /\ corpus' = [corpus EXCEPT !.df = dfref]
    /\ hist' = Counted(op, A)
    /\ heap' = h
    /\ acc' = [op |-> op, exc |-> A.exc, ret |-> A.ret, table |-> None]
    /\ UNCHANGED <<rawFile, held>>
    /\ UNCHANGED <<registryVars, normVars, toolVars>>

View(op, A) == ViewCommit(op, A, HeapAfterLoad(A), DfAfterLoad(A))
Value(op, A) == ValueCommit(op, A, HeapAfterLoad(A), DfAfterLoad(A))

GetReports == View("reports", CorpusReports(Memo, corpus.metadata, rawFile))
GetAuthors == View("authors", CorpusAuthors(Memo, corpus.metadata, rawFile))
GetNReports == Value("n_reports", CorpusNReports(Memo, corpus.metadata, rawFile))
GetNAuthors == Value("n_authors", CorpusNAuthors(Memo, corpus.metadata, rawFile))
GetPath == Value("path", CorpusPath(Memo, corpus.path))
GetRepr == Value("repr", CorpusRepr(Memo, corpus.name))
GetStr == Value("str", CorpusStr(Memo, corpus.name, corpus.metadata))

\* the caller empties, in place, a table it was handed
CallerMutates ==
    \E r \in held :
        /\ heap[r].rows # <<>>
        /\ heap' = [heap EXCEPT ![r] = Table(heap[r].columns, <<>>, <<>>)]
        /\ acc' = [op |-> "mutate", exc |-> "none", ret |-> r, table |-> None]
        /\ UNCHANGED <<corpus, rawFile, hist, held>>
        /\ UNCHANGED <<registryVars, normVars, toolVars>>

\* the cached file is removed from the cache directory
RemoveRawFile ==
    /\ rawFile # Missing
    /\ rawFile' = Missing
    /\ acc' = [op |-> "remove", exc |-> "none", ret |-> None, table |-> None]
    /\ UNCHANGED <<corpus, heap, hist, held>>
    /\ UNCHANGED <<registryVars, normVars, toolVars>>

CorpusNext ==
    \/ GetReports
    \/ GetAuthors
    \/ GetNReports
    \/ GetNAuthors
    \/ GetPath
    \/ GetRepr
    \/ GetStr
    \/ CallerMutates
    \/ RemoveRawFile

SpecCorpus == CorpusInit /\ [][CorpusNext]_vars

(***************************************************************************)
(* The schemas on their own: a table built by a caller is given to         *)
(* ReportsSchema, AuthorsSchema or AggregateReportsSchema.validate.        *)
(***************************************************************************)
MaxSchemaRows == 2

\* a cell, or no value at all (a null)
Cell(c, present, v) == IF present THEN (c :> v) ELSE <<>>

\* rows over every column of the three schemas; the report is "a", "" or null
SchemaRows ==
    {Cell("corpus", pc, <<"alpha", "-v", "1">>) @@ Cell("author", pa, "A1")
        @@ Cell("report", pr, r) @@ Cell("night", TRUE, 1)
        : pc \in BOOLEAN, pa \in BOOLEAN, pr \in BOOLEAN, r \in {<<"a">>, <<>>}}

SchemaColumns ==
    {<<"author", "report">>, <<"author">>, <<"report">>,
     <<"author", "report", "night">>, <<"corpus", "author", "report">>,
     <<"corpus", "author", "report", "night">>}

OnColumns(row, cols) == [c \in (DOMAIN row) \cap Range(cols) |-> row[c]]

SchemaTables ==
    {Table(cols, DenseIndex(Len(rows)),
           [i \in DOMAIN rows |-> OnColumns(rows[i], cols)])
        : cols \in SchemaColumns,
          rows \in UNION {[1..n -> SchemaRows] : n \in 0..MaxSchemaRows}}

\* the caller has built a table and has not validated it yet
SchemaInit ==
    /\ RegistryIdle /\ NormIdle /\ CorpusIdle
    /\ checked \in {[NoCheck EXCEPT !.table = t] : t \in SchemaTables}
    /\ lint = NoLint
    /\ aggregate = NoAggregate
    /\ threads = NoThreads

Validated(schema, V) ==
    /\ checked' = [checked EXCEPT !.schema = schema, !.exc = V.exc, !.ret = V.ret]
    /\ UNCHANGED <<lint, aggregate, threads>>
    /\ UNCHANGED <<registryVars, normVars, corpusVars>>

CheckReports == Validated("reports", ValidateReports(checked.table))
CheckAuthors == Validated("authors", ValidateAuthors(checked.table))
CheckAggregate == Validated("aggregate", ValidateAggregate(checked.table))

SchemaNext == CheckReports \/ CheckAuthors \/ CheckAggregate

SpecSchema == SchemaInit /\ [][SchemaNext]_vars

(***************************************************************************)
(* Threads inside load_registry.  A call is the steps of its bytecode:     *)
(* the test of the global, open(), the construction of the document by     *)
(* yaml.safe_load in the thread's own memory, the assignment of the global *)
(* and the read of the global for the return.  Steps of different threads  *)
(* interleave in any order.                                                *)
(***************************************************************************)
MaxThreads == 2

\* the top-level keys of the document, in the order safe_load constructs them
Sections == <<"collections", "corpora">>

\* the mapping under construction after n of its sections
Built(doc, n) == [k \in {Sections[i] : i \in 1..n} |-> doc[k]]
IsComplete(v) == DOMAIN v = Range(Sections)

\* a faulty variant: safe_load hands the mapping over after its first section
SafeLoadDone_First(doc, n) == n >= 1

\* yaml.safe_load returns when every section has been constructed
SafeLoadDone(doc, n) == n = Len(Sections)

NoThread ==
    [pc |-> "call", src |-> None, built |-> 0, id |-> 0, exc |-> "none", ret |-> None]

ConcInit ==
    /\ registrySource \in RegistrySources
    /\ registryCache = None
    /\ nextId = 1
    /\ fs = <<>>
    /\ last = [op |-> "start", name |-> None, version |-> None, served |-> NetError,
               exc |-> "none", ret |-> None, msg |-> NoMsg, opened |-> 0, requests |-> 0]
    /\ reads = 0
    /\ firstLoad = NoLoad
    /\ loadRefs = {}
    /\ NormIdle /\ CorpusIdle
    /\ checked = NoCheck
    /\ lint = NoLint
    /\ aggregate = NoAggregate
    /\ threads = [t \in 1..MaxThreads |-> NoThread]

ThreadStep(t, th) ==
    /\ threads' = [threads EXCEPT ![t] = th]
    /\ UNCHANGED <<registrySource, fs, last, firstLoad, loadRefs>>
    /\ UNCHANGED <<normVars, corpusVars, checked, lint, aggregate>>

\* if _registry_cache is None:
TestCache(t) ==
    /\ threads[t].pc = "call"
    /\ ThreadStep(t, [threads[t] EXCEPT
                        !.pc = IF registryCache = None THEN "open" ELSE "return"])
    /\ UNCHANGED <<registryCache, nextId, reads>>

\* with open(_REGISTRY_PATH) as f: the thread reads what is on disk
OpenSource(t) ==
    /\ threads[t].pc = "open"
    /\ reads' = reads + 1
    /\ IF registrySource.state = "missing"
       THEN ThreadStep(t, [threads[t] EXCEPT !.pc = "done", !.exc = "FileNotFoundError"])
       ELSE ThreadStep(t, [threads[t] EXCEPT !.pc = "parse", !.src = registrySource])
    /\ UNCHANGED <<registryCache, nextId>>

\* yaml.safe_load(f): one more section of the document, in a new object that
\* only this thread refers to
SafeLoadStep(t) ==
    /\ threads[t].pc = "parse"
    /\ IF threads[t].src.state = "malformed"
       THEN /\ ThreadStep(t, [threads[t] EXCEPT !.pc = "done", !.exc = "YAMLError"])
            /\ UNCHANGED nextId
       ELSE IF threads[t].src.state = "empty"
       THEN /\ ThreadStep(t, [threads[t] EXCEPT !.pc = "store"])
            /\ UNCHANGED nextId
       ELSE /\ ThreadStep(t, [threads[t] EXCEPT
                   !.built = @ + 1,
                   !.id = IF threads[t].built = 0 THEN nextId ELSE @,
                   !.pc = IF SafeLoadDone(threads[t].src.doc, threads[t].built + 1)
                          THEN "store" ELSE "parse"])
            /\ nextId' = IF threads[t].built = 0 THEN nextId + 1 ELSE nextId
    /\ UNCHANGED <<registryCache, reads>>

\* _registry_cache = <what safe_load returned>
StoreCache(t) ==
    /\ threads[t].pc = "store"
    /\ registryCache' =
          IF threads[t].src.state = "empty" THEN None
          ELSE [t |-> "dict", id |-> threads[t].id,
                v |-> Built(threads[t].src.doc, threads[t].built)]
    /\ ThreadStep(t, [threads[t] EXCEPT !.pc = "return"])
    /\ UNCHANGED <<nextId, reads>>

\* return _registry_cache: the global is read again
ReturnCache(t) ==
    /\ threads[t].pc = "return"
    /\ ThreadStep(t, [threads[t] EXCEPT !.pc = "done", !.ret = registryCache])
    /\ UNCHANGED <<registryCache, nextId, reads>>

ConcNext ==
    \E t \in 1..MaxThreads :
        \/ TestCache(t)
        \/ OpenSource(t)
        \/ SafeLoadStep(t)
        \/ StoreCache(t)
        \/ ReturnCache(t)

SpecConc == ConcInit /\ [][ConcNext]_vars

(***************************************************************************)
(* scripts/validate_registry.py.  A check returns (is_valid, errors); an   *)
(* error names its check, the key it is about and the rest of its text.    *)
(* The documents of the model have values of the declared types, so the    *)
(* schema errors are those of missing fields and of the validators.        *)
(***************************************************************************)
Err(check, key, detail) == [check |-> check, key |-> key, detail |-> detail]
Checked(errors) == [valid |-> errors = <<>>, errors |-> errors]

RECURSIVE Flatten(_)
Flatten(ss) == IF ss = <<>> THEN <<>> ELSE Head(ss) \o Flatten(Tail(ss))

Without(f, k) == [x \in (DOMAIN f) \ {k} |-> f[x]]
EmptyDict == Dict(<<>>, <<>>)
\* registry_data.get(section, {})
GetSection(data, section) == IF section \in DOMAIN data THEN data[section] ELSE EmptyDict

\* v.startswith(("http://", "https://")), over the URLs of the documents
HttpUrls ==
    {"https://h/sleep", "https://h/dreams", "https://h/alpha2", "https://h/alpha10",
     "https://h/beta1", "https://h/gamma1"}
StartsWithHttp(v) == v \in HttpUrls

\* pattern ^(md5|sha256):[a-fA-F0-9]+$, over the hashes of the documents
MatchesHashPattern(h) == h \in {"md5:aa", "md5:bb"}

FieldError(key, detail, ok) == IF ok THEN <<>> ELSE <<Err("schema", key, detail)>>

\* VersionInfo
VersionErrors(name, ver, info) ==
    FieldError(name, <<"versions", ver, "download_url">>,
               "download_url" \in DOMAIN info /\ StartsWithHttp(info.download_url))
    \o FieldError(name, <<"versions", ver, "hash">>,
                  "hash" \in DOMAIN info /\ MatchesHashPattern(info.hash))
    \o FieldError(name, <<"versions", ver, "doi">>, "doi" \in DOMAIN info)

VersionsErrors(name, versions) ==
    IF Len(versions.order) < 1 THEN <<Err("schema", name, <<"versions">>)>>
    ELSE Flatten([i \in DOMAIN versions.order |->
                    VersionErrors(name, versions.order[i],
                                  versions.map[versions.order[i]])])

\* CorpusEntry: its required fields in the order of their declaration
CorpusFields ==
    <<"krank_sources_repo", "title", "description", "citations", "environment",
      "probe", "includes_norecall", "column_map", "author_columns", "latest",
      "versions">>

\* validate_column_map: required_keys.issubset(v.keys())
RequiredKeys(column_map) == {"report", "author"} \subseteq DOMAIN column_map

CorpusFieldErrors(name, entry, f) ==
    IF f \notin DOMAIN entry THEN <<Err("schema", name, <<f>>)>>
    ELSE IF f = "citations" THEN FieldError(name, <<f>>, Len(entry[f]) >= 1)
    ELSE IF f = "column_map" THEN FieldError(name, <<f>>, RequiredKeys(entry[f]))
    ELSE IF f = "versions" THEN VersionsErrors(name, entry[f])
    ELSE <<>>

\* model_post_init, which runs when the fields of the entry have validated
PostInit(name, entry, errors) ==
    IF errors # <<>> THEN errors
    ELSE FieldError(name, <<"latest", entry["latest"]>>,
                    entry["latest"] \in Keys(entry["versions"]))

CorpusEntryErrors(name, entry) ==
    PostInit(name, entry,
             Flatten([i \in DOMAIN CorpusFields |->
                        CorpusFieldErrors(name, entry, CorpusFields[i])]))

\* CollectionEntry
CollectionEntryErrors(name, entry) ==
    FieldError(name, <<"title">>, "title" \in DOMAIN entry)
    \o FieldError(name, <<"url">>, "url" \in DOMAIN entry /\ StartsWithHttp(entry["url"]))
    \o FieldError(name, <<"corpora">>,
                  "corpora" \in DOMAIN entry /\ Len(entry["corpora"]) >= 1)

\* Registry: collections, then corpora
CollectionsErrors(data) ==
    IF "collections" \notin DOMAIN data
    THEN <<Err("schema", "collections", <<"missing">>)>>
    ELSE Flatten([i \in DOMAIN data.collections.order |->
                    CollectionEntryErrors(data.collections.order[i],
                        data.collections.map[data.collections.order[i]])])

CorporaErrors(data) ==
    IF "corpora" \notin DOMAIN data
    THEN <<Err("schema", "corpora", <<"missing">>)>>
    ELSE Flatten([i \in DOMAIN data.corpora.order |->
                    CorpusEntryErrors(data.corpora.order[i],
                        data.corpora.map[data.corpora.order[i]])])

\* validate_schema(registry_data)
ValidateSchema(data) ==
    IF data = None THEN Checked(<<Err("schema", "", <<"dict_type">>)>>)
    ELSE Checked(CollectionsErrors(data) \o CorporaErrors(data))

\* validate_alphabetical_order(items, name)
ValidateAlphabeticalOrder(items, name) ==
    IF items.order # Sorted(items.order)
    THEN Checked(<<Err(name, "not in alphabetical order", <<>>),
                   Err(name, "Current order", items.order),
                   Err(name, "Expected order", Sorted(items.order))>>)
    ELSE Checked(<<>>)

\* validate_collection_references(registry_data)
Dangling(collection_name, corpus_list, available_corpora) ==
    [i \in DOMAIN SelectSeq(corpus_list, LAMBDA c : c \notin available_corpora) |->
        Err("references", collection_name,
            <<SelectSeq(corpus_list, LAMBDA c : c \notin available_corpora)[i]>>)]

CorpusList(collection_data) ==
    IF "corpora" \in DOMAIN collection_data THEN collection_data["corpora"] ELSE <<>>

ReferenceErrors(collections, available_corpora) ==
    Flatten([i \in DOMAIN collections.order |->
               Dangling(collections.order[i],
                        CorpusList(collections.map[collections.order[i]]),
                        available_corpora)])

ValidateCollectionReferences(data) ==
    Checked(ReferenceErrors(GetSection(data, "collections"),
                            Keys(GetSection(data, "corpora"))))

\* main(): the checks it has run, the errors it lists and its exit status
Ran == <<"schema", "Collections", "Corpora", "references">>

LintRun(src, exc, exit, ran, listed) ==
    [source |-> src, exc |-> exc, exit |-> exit, ran |-> ran, listed |-> listed]

\* a faulty variant: all_valid is the result of the last check
AllValid_LastOnly(s, a, b, r) == r.valid

\* all_valid stays True when no check has set it to False
AllValid(s, a, b, r) == s.valid /\ a.valid /\ b.valid /\ r.valid

Summary(src, s, a, b, r) ==
    LintRun(src, "none", IF AllValid(s, a, b, r) THEN 0 ELSE 1, Ran,
            s.errors \o a.errors \o b.errors \o r.errors)

Main(src) ==
    IF src.state = "missing" THEN LintRun(src, "none", 1, <<>>, <<>>)
    ELSE IF src.state = "malformed" THEN LintRun(src, "none", 1, <<>>, <<>>)
    ELSE IF src.state = "empty"
    \* validate_schema(None) fails, then None.get raises: the interpreter
    \* ends with status 1 and the summary is never printed
    THEN LintRun(src, "AttributeError", 1, <<"schema">>, <<>>)
    ELSE Summary(src, ValidateSchema(src.doc),
                 ValidateAlphabeticalOrder(GetSection(src.doc, "collections"),
                                           "Collections"),
                 ValidateAlphabeticalOrder(GetSection(src.doc, "corpora"), "Corpora"),
                 ValidateCollectionReferences(src.doc))

\* the documents given to the lint: a catalog with two collections and two
\* corpora in which the order of the keys, a URL, the references, and the
\* title, column_map, latest and hash of a corpus are right or wrong
LintAlpha(titled, cmap, latest, hash) ==
    IF titled
    THEN [CorpusEntry("Alpha", latest,
                      Dict(<<"1">>, ("1" :> VersionInfo("https://h/alpha2", hash, "10.1/a1"))))
             EXCEPT !.column_map = cmap]
    ELSE Without([CorpusEntry("Alpha", latest,
                      Dict(<<"1">>, ("1" :> VersionInfo("https://h/alpha2", hash, "10.1/a1"))))
                     EXCEPT !.column_map = cmap], "title")

LintBeta ==
    CorpusEntry("Beta", "1",
                Dict(<<"1">>, ("1" :> VersionInfo("https://h/beta1", "md5:bb", "10.1/b1"))))

LintDoc(co, po, url, refs, alpha) ==
    [collections |-> Dict(co,
        [dreams |-> CollectionEntry("Dreams", url, refs),
         sleep |-> CollectionEntry("Sleep", "https://h/sleep", <<"beta">>)]),
     corpora |-> Dict(po, [alpha |-> alpha, beta |-> LintBeta])]

LintDocs ==
    {LintDoc(co, po, url, refs, LintAlpha(titled, cmap, latest, hash)) :
        co \in {<<"dreams", "sleep">>, <<"sleep", "dreams">>},
        po \in {<<"alpha", "beta">>, <<"beta", "alpha">>},
        url \in {"https://h/dreams", "not-a-url"},
        refs \in {<<"alpha">>, <<"alpha", "gamma">>},
        titled \in BOOLEAN,
        cmap \in {ColumnMap, [report |-> "Report Text"]},
        latest \in {"1", "999"},
        hash \in {"md5:aa", "invalid_hash"}}
    \cup Catalogs
    \cup {Without(CatalogB, "collections")}

LintSources ==
    {[state |-> "ok", doc |-> d] : d \in LintDocs}
    \cup {[state |-> s, doc |-> None] : s \in {"missing", "malformed", "empty"}}

LintInit == RegistryIdle /\ NormIdle /\ CorpusIdle /\ ToolsIdle

RunLint ==
    /\ \E src \in LintSources : lint' = Main(src)
    /\ UNCHANGED <<checked, aggregate, threads>>
    /\ UNCHANGED <<registryVars, normVars, corpusVars>>

LintNext == RunLint

SpecLint == LintInit /\ [][LintNext]_vars

(***************************************************************************)
(* scripts/build_aggregate.py.  The cached file of a corpus is one of the  *)
(* two contents the server has; CsvOf is the table each of them holds.     *)
(***************************************************************************)
MaxBuilds == 2

CsvOf ==
    [c1 |-> CsvFile(RawColumns, <<RawRow(<<"a">>, "A1", 25, "M", 1),
                                  RawRow(<<SP, "b", SP, SP, "c", NL>>, "A2", 30, "F", 2)>>),
     c2 |-> CsvFile(RawColumns, <<RawRow(<<LDQ, "a", RDQ>>, "B1", 41, "F", 1)>>)]

\* f"{corpus_name}-v{version}"
CorpusString(corpus_name, version) == <<corpus_name, "-v", version>>

\* df.insert(0, column, value)
InsertColumn(t, column, value) ==
    IF column \in Range(t.columns) THEN NoResult("ValueError")
    ELSE Result(Table(<<column>> \o t.columns, t.index,
                      [i \in DOMAIN t.rows |-> (column :> value) @@ t.rows[i]]))

\* the name of the column that tags a report with its corpus
TagColumn == "corpus_version"

\* compile_single_corpus(corpus_name) after its krank.load call L, the
\* access V to corpus.reports and the insertion T
Compiled(L, e, table, part) ==
    [exc |-> e, ret |-> table, part |-> part, rc |-> L.rc, nid |-> L.nid, fs |-> L.fs,
     opened |-> L.opened]

CompiledTag(L, V, T, corpus_name) ==
    IF T.exc # "none" THEN Compiled(L, T.exc, None, None)
    ELSE Compiled(L, "none", T.ret,
                  [name |-> corpus_name, version |-> L.ret.metadata["version"],
                   reports |-> V.ret])

CompiledReports(L, V, corpus_name) ==
    IF V.exc # "none" THEN Compiled(L, V.exc, None, None)
    ELSE CompiledTag(L, V,
                     InsertColumn(V.ret, TagColumn,
                                  CorpusString(corpus_name, L.ret.metadata["version"])),
                     corpus_name)

CompiledIn(L, corpus_name) ==
    IF L.exc # "none" THEN Compiled(L, L.exc, None, None)
    ELSE CompiledReports(L, CorpusReports(None, L.ret.metadata, CsvOf[L.fs[L.ret.path]]),
                         corpus_name)

CompileSingleCorpus(rc, src, nid, dir, corpus_name, served) ==
    CompiledIn(Load(rc, src, nid, dir, PyStr(corpus_name), None, served), corpus_name)

\* [compile_single_corpus(name) for name in corpora]: in order, until one raises
Compilation(e, tables, parts, rc, nid, dir, opened) ==
    [exc |-> e, tables |-> tables, parts |-> parts, rc |-> rc, nid |-> nid, fs |-> dir,
     opened |-> opened]

RECURSIVE CompileAll(_, _, _, _)
RECURSIVE CompileRest(_, _, _, _, _)
CompileRest(names, served, src, K, done) ==
    IF K.exc # "none"
    THEN Compilation(K.exc, <<>>, <<>>, K.rc, K.nid, K.fs, done.opened + K.opened)
    ELSE CompileAll(Tail(names), served, src,
                    Compilation("none", Append(done.tables, K.ret),
                                Append(done.parts, K.part), K.rc, K.nid, K.fs,
                                done.opened + K.opened))

CompileAll(names, served, src, done) ==
    IF names = <<>> THEN done
    ELSE CompileRest(names, served, src,
                     CompileSingleCorpus(done.rc, src, done.nid, done.fs, Head(names),
                                         served[Head(names)]),
                     done)

\* pd.concat(tables, ignore_index=True): the columns in the order in which
\* they first appear, every row, a new dense index
RECURSIVE ConcatColumns(_)
ConcatColumns(tables) ==
    IF tables = <<>> THEN <<>>
    ELSE Head(tables).columns
            \o SelectSeq(ConcatColumns(Tail(tables)),
                         LAMBDA c : c \notin Range(Head(tables).columns))

ConcatRows(tables) == Flatten([i \in DOMAIN tables |-> tables[i].rows])

Concat(tables) ==
    IF tables = <<>> THEN NoResult("ValueError")
    ELSE Result(Table(ConcatColumns(tables), DenseIndex(Len(ConcatRows(tables))),
                      ConcatRows(tables)))

\* build_aggregate(output_path): what it raises, what is at output_path when
\* it ends, and what it has left in the registry cache and the cache directory
Built_(A, e, output) ==
    [exc |-> e, output |-> output, parts |-> IF e = "none" THEN A.parts ELSE <<>>,
     rc |-> A.rc, nid |-> A.nid, fs |-> A.fs, opened |-> A.opened]

\* df.to_csv(output_path, mode="x", index=False)
ToCsv(A, D, existing) ==
    IF D.exc # "none" THEN Built_(A, D.exc, existing)
    ELSE IF existing # None THEN Built_(A, "FileExistsError", existing)
    ELSE Built_(A, "none", [columns |-> D.ret.columns, rows |-> D.ret.rows])

Concatenated(A, existing) ==
    IF A.exc # "none" THEN Built_(A, A.exc, existing)
    ELSE ToCsv(A, Concat(A.tables), existing)

BuildAggregateIn(C, src, dir, served, existing) ==
    IF C.exc # "none"
    THEN Built_(Compilation(C.exc, <<>>, <<>>, C.rc, C.nid, dir, C.opened), C.exc, existing)
    ELSE Concatenated(CompileAll(C.ret, served, src,
                                 Compilation("none", <<>>, <<>>, C.rc, C.nid, dir,
                                             C.opened)),
                      existing)

BuildAggregateOf(rc, src, nid, dir, served, existing) ==
    BuildAggregateIn(ListCorpora(rc, src, nid), src, dir, served, existing)

AggregateInit ==
    /\ RegistryInit /\ NormIdle /\ CorpusIdle /\ ToolsIdle

Rebuilt(B) ==
    /\ registryCache' = B.rc
    /\ nextId' = B.nid
    /\ fs' = B.fs
    /\ reads' = reads + B.opened
    /\ aggregate' = [runs |-> aggregate.runs + 1, exc |-> B.exc, output |-> B.output,
                     parts |-> B.parts]
    /\ UNCHANGED <<registrySource, last, firstLoad, loadRefs>>
    /\ UNCHANGED <<normVars, corpusVars, checked, lint, threads>>

BuildAggregate ==
    /\ aggregate.runs < MaxBuilds
    /\ \E served \in [{"alpha", "beta", "gamma"} -> Served] :
          Rebuilt(BuildAggregateOf(registryCache, registrySource, nextId, fs, served,
                                   aggregate.output))

\* the previous artifact is removed before the next build
RemoveOutput ==
    /\ aggregate.output # None
    /\ aggregate' = [aggregate EXCEPT !.output = None]
    /\ UNCHANGED registryVars
    /\ UNCHANGED <<normVars, corpusVars, checked, lint, threads>>

\* between builds the cache directory may lose or gain files
AggregateNext ==
    \/ BuildAggregate
    \/ RemoveOutput
    \/ CorruptCacheFile
    \/ DeleteCacheFile

SpecAggregate == AggregateInit /\ [][AggregateNext]_vars

\* C9: normalizing a normalized report changes nothing: when the second
\* call returns, its column equals the column it was given (the output of
\* the first call, which has no empty report).
C9_Idempotent ==
    (passes = 2 /\ out.exc = "none") => out.ret = df

\* The report before the outer quotes are looked at: quotes canonicalized,
\* whitespace collapsed, trimmed.
Canonical(s) == Strip(CollapseWhitespace(ReplaceEllipsis(FixText(s))))
IsQuote(c) == c \in {DQ, SQ}
CountQuotes(s) == Cardinality({i \in DOMAIN s : IsQuote(s[i])})
WhollyQuoted(t) == Len(t) >= 3 /\ IsQuote(t[1]) /\ t[Len(t)] = t[1]

\* C10: the first call removes a pair of quotes exactly when the canonical
\* text starts and ends with the same straight quote with at least one
\* character between; it then removes that outer pair and nothing else but
\* the whitespace next to it; otherwise the text keeps all its quotes.
C10_OuterQuotes ==
    (passes = 1 /\ Len(df) = 1) =>
        LET t == Canonical(df[1])
            r == NormalizeReport(df[1])
        IN /\ WhollyQuoted(t) => /\ r = Strip(SubSeq(t, 2, Len(t) - 1))
                                 /\ CountQuotes(r) = CountQuotes(t) - 2
           /\ ~WhollyQuoted(t) => /\ r = t
                                  /\ CountQuotes(r) = CountQuotes(t)
           /\ out.exc = "none" => out.ret = <<r>>
           /\ out.exc = "none" <=> r # <<>>

\* a quoted report with a quoted word inside: only the outer pair goes
C10_Witness ==
    /\ passes = 1 /\ out.exc = "none"
    /\ df = << <<DQ, SQ, "a", SQ, DQ>> >>
    /\ out.ret = << <<SQ, "a", SQ>> >>

\* the texts the scenarios expect, character by character
DreamThree == <<"D", "r", "e", "a", "m", SP, "3">>
TextWithNewlines ==
    <<"T", "e", "x", "t", SP, "w", "i", "t", "h", SP,
      "n", "e", "w", "l", "i", "n", "e", "s">>
WholeString == <<SP, "w", "h", "o", "l", "e", SP, "s", "t", "r", "i", "n", "g">>
QuotedWord == <<"Q", "u", "o", "t", "e", "d">>

\* C11, as stated: the column of scenario 1 is normalized to "Dream 3",
\* "Text with newlines" and "Quoted whole string", the curly quotes being
\* converted to straight quotes and then stripped.
C11_Scenario1Stripped ==
    (passes = 1 /\ df = Scenario1) =>
        /\ out.exc = "none"
        /\ out.ret = <<DreamThree, TextWithNewlines, QuotedWord \o WholeString>>

\* C11, amended: the column of scenario 1 is normalized to "Dream 3",
\* "Text with newlines" and "Quoted" whole string with straight double quotes
\* around Quoted: the curly quotes are converted and kept, because the text
\* does not end with a quote.
C11_Scenario1Kept ==
    (passes = 1 /\ df = Scenario1) =>
        /\ out.exc = "none"
        /\ out.warnings = <<>>
        /\ out.ret = <<DreamThree, TextWithNewlines,
                       <<DQ>> \o QuotedWord \o <<DQ>> \o WholeString>>

C11_Witness ==
    /\ passes = 1 /\ df = Scenario1 /\ out.exc = "none"
    /\ Len(out.ret) = 3 /\ out.ret[3][1] = DQ

\* C12: every returned report has no two consecutive spaces, no tab or
\* newline, and no whitespace at either end, also after outer quotes around
\* inner whitespace were stripped.
C12_WhitespaceCollapsed ==
    (passes >= 1 /\ out.exc = "none") =>
        \A i \in DOMAIN out.ret :
            LET r == out.ret[i]
            IN /\ \A j \in DOMAIN r : r[j] \notin {TAB, NL}
               /\ \A j \in 1..(Len(r) - 1) : ~(r[j] = SP /\ r[j + 1] = SP)
               /\ r # <<>> => (~IsSpace(r[1]) /\ ~IsSpace(r[Len(r)]))

\* quotes around a padded word: the padding goes with the quotes
C12_Witness ==
    /\ passes = 1 /\ out.exc = "none"
    /\ df = << <<DQ, SP, "a", SP, DQ>> >>
    /\ out.ret = << <<"a">> >>

\* a report normalizes to the empty text when nothing but whitespace is left
\* of it, or nothing but whitespace between its outer quotes
NormalizesToEmpty(s) ==
    \/ Canonical(s) = <<>>
    \/ /\ WhollyQuoted(Canonical(s))
       /\ Strip(SubSeq(Canonical(s), 2, Len(Canonical(s)) - 1)) = <<>>
EmptyRows(col) == {i \in DOMAIN col : NormalizesToEmpty(col[i])}

\* C13: when k >= 1 reports of the column normalize to the empty text the
\* call raises ValueError naming k and returns no table; otherwise it
\* returns as many rows as it was given, row i being the normalized row i.
C13_EmptyIsFatal ==
    passes = 1 =>
        IF EmptyRows(df) # {}
        THEN /\ out.exc = "ValueError"
             /\ out.empty_count = Cardinality(EmptyRows(df))
             /\ out.ret = <<>>
        ELSE /\ out.exc = "none"
             /\ Len(out.ret) = Len(df)
             /\ \A i \in DOMAIN df : out.ret[i] = NormalizeReport(df[i])

\* three rows, two of them empty after normalization
C13_Witness ==
    /\ passes = 1
    /\ df = << <<"a">>, <<SP, SP, SP>>, <<DQ, SP, DQ>> >>
    /\ out.exc = "ValueError" /\ out.empty_count = 2

CountChar(s, c) == Cardinality({j \in DOMAIN s : s[j] = c})
ReplacementRows(col) == {i \in DOMAIN col : CountChar(col[i], FFFD) > 0}

\* C14: when k >= 1 rows hold a replacement character the call emits one
\* warning naming k, and none when k = 0; a returned column holds every
\* replacement character of the input.
C14_ReplacementWarned ==
    passes = 1 =>
        /\ out.warnings = IF ReplacementRows(df) # {}
                          THEN <<Cardinality(ReplacementRows(df))>>
                          ELSE <<>>
        /\ out.exc = "none" =>
              \A i \in DOMAIN df :
                  CountChar(out.ret[i], FFFD) = CountChar(df[i], FFFD)

\* two of three rows hold replacement characters, one of them twice
C14_Witness ==
    /\ passes = 1 /\ out.exc = "none"
    /\ df = << <<"a", FFFD>>, <<"a">>, <<FFFD, SP, FFFD>> >>
    /\ out.warnings = <<2>>
    /\ out.ret = << <<"a", FFFD>>, <<"a">>, <<FFFD, SP, FFFD>> >>

(***************************************************************************)
(* Properties of the Corpus.                                               *)
(***************************************************************************)
SameIO == hist'.reads = hist.reads /\ hist'.norms = hist.norms

C16_DefensiveCopies ==
    [][/\ corpus.df # 0 =>
             (corpus'.df = corpus.df /\ heap'[corpus.df] = heap[corpus.df])
       /\ (acc'.op = "reports" /\ acc'.exc = "none") => acc'.table = hist'.firstReports
       /\ (acc'.op = "authors" /\ acc'.exc = "none") => acc'.table = hist'.firstAuthors
       /\ corpus'.df \notin held']_vars

\* the caller has emptied the first reports table and got the same reports again
C16_Witness ==
    /\ acc.op = "reports" /\ acc.exc = "none"
    /\ acc.table = hist.firstReports
    /\ \E r \in held : r # acc.ret /\ heap[r].rows = <<>>
                          /\ heap[r].columns = acc.table.columns
    /\ heap[acc.ret].rows # <<>>

\* C17: authors on a Corpus whose metadata has no author_columns raises an
\* AssertionError (whose message names author_columns).
C17_AuthorsAssertion ==
    (acc.op = "authors" /\ "author_columns" \notin DOMAIN corpus.metadata) =>
        acc.exc = "AssertionError"

\* C18: no two rows of a table returned by authors have the same author.
C18_AuthorsUnique ==
    (acc.op = "authors" /\ acc.exc = "none") =>
        \A i, j \in DOMAIN acc.table.rows :
            i # j => acc.table.rows[i]["author"] # acc.table.rows[j]["author"]

\* three rows of two authors give two author rows
C18_Witness ==
    /\ acc.op = "authors" /\ acc.exc = "none"
    /\ corpus.df # 0 /\ Len(heap[corpus.df].rows) = 3
    /\ {acc.table.rows[i]["author"] : i \in DOMAIN acc.table.rows} = {"A1", "A2"}
    /\ Len(acc.table.rows) = 2

\* two rows of the table share the author and differ in an author-level column
Conflicting(rows, key, cols) ==
    \E i, j \in DOMAIN rows :
        /\ rows[i][key] = rows[j][key]
        /\ \E k \in DOMAIN cols :
              cols[k] \in DOMAIN rows[i] /\ rows[i][cols[k]] # rows[j][cols[k]]
RawAuthorColumns ==
    [k \in DOMAIN corpus.metadata["author_columns"] |->
        corpus.metadata["column_map"][corpus.metadata["author_columns"][k]]]

\* C19: when two rows share an author and differ in an author-level column,
\* authors returns no table; on a Loaded Corpus it raises SchemaError.
C19_ConflictIsFatal ==
    (acc.op = "authors" /\ "author_columns" \in DOMAIN corpus.metadata) =>
        /\ (rawFile.columns = RawColumns
            /\ "column_map" \in DOMAIN corpus.metadata
            /\ Conflicting(rawFile.rows, "Author ID", RawAuthorColumns))
              => (acc.exc # "none" /\ acc.table = None)
        /\ (corpus.df # 0
            /\ Conflicting(heap[corpus.df].rows, "author",
                           corpus.metadata["author_columns"]))
              => (acc.exc = "SchemaError" /\ acc.table = None)

\* A1 is 25 in one row and 26 in another
C19_Witness ==
    /\ acc.op = "authors" /\ acc.exc = "SchemaError"
    /\ corpus.df # 0
    /\ \E i, j \in DOMAIN heap[corpus.df].rows :
          /\ heap[corpus.df].rows[i]["author"] = heap[corpus.df].rows[j]["author"]
          /\ heap[corpus.df].rows[i]["age"] # heap[corpus.df].rows[j]["age"]

\* C20: reports has the columns of the memoized table that are not in
\* author_columns, in their order, author and report among them; authors has
\* the columns [author] + author_columns in that order and the row index
\* 0..n-1.
C20_ViewsSplitColumns ==
    /\ (acc.op = "reports" /\ acc.exc = "none") =>
          /\ acc.table.columns =
                SelectSeq(heap[corpus.df].columns,
                          LAMBDA c : c \notin Range(corpus.metadata["author_columns"]))
          /\ {"author", "report"} \subseteq Range(acc.table.columns)
          /\ Range(acc.table.columns) \cap Range(corpus.metadata["author_columns"]) = {}
          /\ \A i \in DOMAIN acc.table.rows :
                DOMAIN acc.table.rows[i] = Range(acc.table.columns)
    /\ (acc.op = "authors" /\ acc.exc = "none") =>
          /\ acc.table.columns = <<"author">> \o corpus.metadata["author_columns"]
          /\ acc.table.index = [i \in 1..Len(acc.table.rows) |-> i - 1]
          /\ \A i \in DOMAIN acc.table.rows :
                DOMAIN acc.table.rows[i] = Range(acc.table.columns)

\* the rows of A1 are first and third: the author rows are renumbered 0, 1
C20_Witness ==
    /\ acc.op = "authors" /\ acc.exc = "none"
    /\ corpus.df # 0 /\ Len(heap[corpus.df].rows) = 3
    /\ heap[corpus.df].rows[1]["author"] = heap[corpus.df].rows[2]["author"]
    /\ acc.table.columns = <<"author", "age">>
    /\ acc.table.index = <<0, 1>>

\* C24: str(corpus) never fails; it renders name, title, description,
\* version and the DOI link (https://doi.org/<doi>), with N/A for each of
\* title, description, version and doi that the metadata lacks.
Field(k) == IF k \in DOMAIN corpus.metadata THEN corpus.metadata[k] ELSE "N/A"
C24_StrRendersAll ==
    acc.op = "str" =>
        /\ acc.exc = "none"
        /\ acc.ret = <<"Corpus: ", corpus.name, "  Title: ", Field("title"),
                       "  Description: ", Field("description"),
                       "  Version: ", Field("version"),
                       "  DOI: ", IF "doi" \in DOMAIN corpus.metadata
                                  THEN <<"https://doi.org/", corpus.metadata["doi"]>>
                                  ELSE "N/A">>

\* C25: reports on a Corpus whose metadata has author_columns and no
\* column_map, over a readable file that has the canonical columns, returns
\* the normalized reports under the file's own column names.
C25_NoColumnMapLoads ==
    (acc.op = "reports" /\ "column_map" \notin DOMAIN corpus.metadata
        /\ "author_columns" \in DOMAIN corpus.metadata /\ rawFile = CanonicalFile) =>
        /\ acc.exc = "none"
        /\ acc.table.columns = <<"report", "author">>
        /\ acc.table.rows[1]["report"] = <<"a">>

\* the file cannot be read, the metadata has no column_map, or the
\* normalizer has raised (no report column, an empty report)
LoadFails(exc) ==
    \/ rawFile = Missing
    \/ "column_map" \notin DOMAIN corpus.metadata
    \/ exc \in {"FileNotFoundError", "ValueError"}

AuthorsOfTable(t) == {t.rows[i]["author"] : i \in DOMAIN t.rows}

\* C30: when both views have returned, the authors of reports are the
\* authors of authors, each in exactly one row.
C30_SameAuthors ==
    (hist.firstReports # None /\ hist.firstAuthors # None) =>
        /\ AuthorsOfTable(hist.firstAuthors) = AuthorsOfTable(hist.firstReports)
        /\ \A a \in AuthorsOfTable(hist.firstReports) :
              Cardinality({i \in DOMAIN hist.firstAuthors.rows :
                              hist.firstAuthors.rows[i]["author"] = a}) = 1

\* two reports of A1 and one of A2: two author rows
C30_Witness ==
    /\ hist.firstReports # None /\ hist.firstAuthors # None
    /\ Len(hist.firstReports.rows) = 3 /\ Len(hist.firstAuthors.rows) = 2
    /\ AuthorsOfTable(hist.firstAuthors) = {"A1", "A2"}

(***************************************************************************)
(* Properties of the registry store and the content fetcher.               *)
(***************************************************************************)
\* the catalog a call that has just returned looked things up in
Catalog == registryCache.v
IsSortedListOf(seq, keys) ==
    /\ IsSortedSeq(seq)
    /\ Range(seq) = keys
    /\ Len(seq) = Cardinality(keys)

\* C1: if the first load_registry call of the process returned a catalog,
\* the catalog source has been opened and parsed exactly once, and every
\* load_registry call so far has returned that one object (same identity).
C1_LoadedOnce ==
    (firstLoad.exc = "none" /\ firstLoad.ret # None)
        => (reads = 1 /\ loadRefs = {firstLoad.ret})

\* a later load_registry call was served from the cache
C1_Witness ==
    /\ firstLoad.exc = "none" /\ firstLoad.ret # None
    /\ last.op = "load_registry" /\ last.opened = 0 /\ last.ret = firstLoad.ret

\* C21: a catalog in which some corpus's latest is not a key of its versions
\* is rejected at load time: the cache never holds one, and no get_entry,
\* fetch_corpus, load or info call that asks for the latest version is the
\* first to report it.
C21_LatestCheckedAtLoad ==
    /\ registryCache # None =>
          \A n \in Keys(Catalog.corpora) :
              Catalog.corpora.map[n].latest \in Keys(Catalog.corpora.map[n].versions)
    /\ (last.op \in {"get_entry", "fetch_corpus", "load", "info"}
        /\ last.version = None /\ last.exc = "KeyError")
          => last.msg.text # "Version not found"

\* C28: no call changes the cached registry once it is loaded, and a lookup
\* returns what it returns whatever was resolved before.
C28_CacheUnchanged ==
    [][/\ registryCache # None => registryCache' = registryCache
       /\ (registryCache' # None /\ last'.op = "get_entry"
           /\ IsInstanceStr(last'.name) /\ last'.name.v \in Keys(registryCache'.v.corpora))
             => /\ {"versions", "latest"} \subseteq
                       DOMAIN registryCache'.v.corpora.map[last'.name.v]
                /\ last'.exc = "none" =>
                      /\ "versions" \notin DOMAIN last'.ret
                      /\ last'.ret["version"] \in
                            Keys(registryCache'.v.corpora.map[last'.name.v].versions)]_vars

\* version 2 of alpha resolved from a catalog that was cached by an earlier call
C28_Witness ==
    /\ registryCache # None /\ Catalog = CatalogA
    /\ last.op = "get_entry" /\ last.exc = "none" /\ last.opened = 0
    /\ last.ret["version"] = "2"
    /\ Keys(Catalog.corpora.map["alpha"].versions) = {"2", "10"}

\* C2: get_entry(name) without a version gives the version, download_url and
\* hash of the entry's declared latest, the same as get_entry(name, latest)
\* gives (and fails as that call fails when latest is no version).
C2_LatestResolves ==
    (/\ last.op = "get_entry" /\ last.version = None
     /\ registryCache # None
     /\ last.name.v \in Keys(Catalog.corpora))
        => LET L == Catalog.corpora.map[last.name.v].latest
               viaL == GetEntry(registryCache, registrySource, nextId,
                                last.name.v, PyStr(L))
           IN /\ last.exc = viaL.exc
              /\ last.exc = "none" =>
                    /\ last.ret["version"] = L
                    /\ last.ret["version"] = viaL.ret["version"]
                    /\ last.ret["download_url"] = viaL.ret["download_url"]
                    /\ last.ret["hash"] = viaL.ret["hash"]

C2_Witness ==
    /\ last.op = "get_entry" /\ last.version = None /\ last.exc = "none"
    /\ last.ret["version"] = "10"
    /\ Catalog.corpora.map[last.name.v].versions.order[1] # "10"

\* C3: a successful get_entry returns the entry's scalar fields, the resolved
\* version and that version's download_url, hash and doi, and neither a
\* "versions" nor a "latest" key.
C3_MergedFields ==
    (last.op = "get_entry" /\ last.exc = "none")
        => LET entry == Catalog.corpora.map[last.name.v]
               ver == IF last.version = None THEN entry.latest ELSE last.version.v
               info == entry.versions.map[ver]
           IN /\ \A k \in (DOMAIN entry) \ {"versions", "latest"} :
                    k \in DOMAIN last.ret /\ last.ret[k] = entry[k]
              /\ last.ret["version"] = ver
              /\ last.ret["download_url"] = info.download_url
              /\ last.ret["hash"] = info.hash
              /\ "versions" \notin DOMAIN last.ret
              /\ "latest" \notin DOMAIN last.ret
              /\ "doi" \in DOMAIN last.ret
              /\ last.ret["doi"] = info.doi

\* C4: with a catalog loaded, get_entry, list_versions and load of a name
\* that is not in the catalog raise KeyError, return nothing, and the message
\* lists all corpus names in sorted order; get_entry of a version that is not
\* one of the entry's versions raises KeyError with the entry's versions in
\* sorted order.
C4_NotFound ==
    /\ (/\ last.op \in {"get_entry", "list_versions", "load"}
        /\ last.name.t = "str" /\ last.name.v # ""
        /\ last.version = None \/ (last.version.t = "str" /\ last.version.v # "")
        /\ registryCache # None
        /\ last.name.v \notin Keys(Catalog.corpora))
          => /\ last.exc = "KeyError"
             /\ last.ret = None
             /\ last.msg.text = "Corpus not found"
             /\ last.msg.about = last.name.v
             /\ IsSortedListOf(last.msg.available, Keys(Catalog.corpora))
    /\ (/\ last.op = "get_entry"
        /\ registryCache # None
        /\ last.name.v \in Keys(Catalog.corpora)
        /\ last.version # None
        /\ last.version.v \notin Keys(Catalog.corpora.map[last.name.v].versions))
          => /\ last.exc = "KeyError"
             /\ last.ret = None
             /\ last.msg.text = "Version not found"
             /\ last.msg.about = last.version.v
             /\ IsSortedListOf(last.msg.available,
                               Keys(Catalog.corpora.map[last.name.v].versions))

\* an unknown version of a corpus whose versions are not in sorted order in
\* the catalog
C4_Witness ==
    /\ last.op = "get_entry" /\ last.exc = "KeyError"
    /\ last.msg.text = "Version not found"
    /\ last.msg.available = <<"10", "2">>
    /\ Catalog.corpora.map[last.name.v].versions.order = <<"2", "10">>

\* C5: load, info and list_versions raise TypeError for a name that is not a
\* str and ValueError for the empty name, load also for such a version, and
\* the call has then neither opened the catalog source nor made a request.
C5_ArgumentsFirst ==
    LET NoIO == last.opened = 0 /\ last.requests = 0
    IN /\ (last.op \in {"load", "info", "list_versions"} /\ last.name.t # "str")
            => (last.exc = "TypeError" /\ NoIO)
       /\ (last.op \in {"load", "info", "list_versions"} /\ last.name = PyStr(""))
            => (last.exc = "ValueError" /\ NoIO)
       /\ (/\ last.op = "load" /\ last.name.t = "str" /\ last.name.v # ""
           /\ last.version.t \notin {"str", "NoneType"})
            => (last.exc = "TypeError" /\ NoIO)
       /\ (/\ last.op = "load" /\ last.name.t = "str" /\ last.name.v # ""
           /\ last.version = PyStr(""))
            => (last.exc = "ValueError" /\ NoIO)

\* load("alpha", version="") before the registry was ever read
C5_Witness ==
    /\ last.op = "load" /\ last.name = PyStr("alpha") /\ last.version = PyStr("")
    /\ last.exc = "ValueError"
    /\ registryCache = None /\ reads = 0

\* C6: when fetch_corpus (or load) returns a path, the file at that path
\* hashes to the hash the catalog declares for the resolved (name, version).
C6_ReturnedFileVerified ==
    (last.op \in {"fetch_corpus", "load"} /\ last.exc = "none")
        => LET entry == Catalog.corpora.map[last.name.v]
               ver == IF last.version = None THEN entry.latest ELSE last.version.v
               path == IF last.op = "load" THEN last.ret.path ELSE last.ret
           IN /\ Exists(fs, path)
              /\ HashOf[fs[path]] = entry.versions.map[ver].hash

\* a download of a version that is not the latest, next to another version's
\* cache file
C6_Witness ==
    /\ last.op = "fetch_corpus" /\ last.exc = "none" /\ last.requests = 1
    /\ last.version = PyStr("2")
    /\ Exists(fs, CacheFilename("alpha", "10"))

\* A step is a fetch_corpus call whose (name, version) resolves in the
\* catalog; the catalog and the resolved version of that call.
FetchResolved ==
    /\ last'.op = "fetch_corpus"
    /\ registryCache' # None
    /\ last'.name.v \in Keys(registryCache'.v.corpora)
    /\ LET entry == registryCache'.v.corpora.map[last'.name.v]
       IN (IF last'.version = None THEN entry.latest ELSE last'.version.v)
             \in Keys(entry.versions)
FetchedEntry == registryCache'.v.corpora.map[last'.name.v]
FetchedVersion ==
    IF last'.version = None THEN FetchedEntry.latest ELSE last'.version.v
FetchedHash == FetchedEntry.versions.map[FetchedVersion].hash
FetchedPath == CacheFilename(last'.name.v, FetchedVersion)
\* before the call, the cache file of (name, version) exists and hashes to
\* the declared hash
CacheValid == Exists(fs, FetchedPath) /\ HashOf[fs[FetchedPath]] = FetchedHash

\* C7: a fetch_corpus call that finds the cache file of (name, version) with
\* the declared hash makes no request, leaves the cache as it is and returns
\* that file's path; a request is made only when the file is missing or its
\* hash differs.
C7_CacheHit ==
    [][FetchResolved =>
          /\ CacheValid => /\ last'.requests = 0
                           /\ last'.exc = "none"
                           /\ last'.ret = FetchedPath
                           /\ fs' = fs
          /\ last'.requests > 0 => ~CacheValid]_vars

\* a second fetch of a version that is not the latest, answered from the cache
C7_Witness ==
    /\ last.op = "fetch_corpus" /\ last.exc = "none" /\ last.requests = 0
    /\ last.version = PyStr("2")
    /\ last.ret = CacheFilename("alpha", "2")

\* C8: a fetch_corpus call whose download does not hash to the declared hash
\* raises the hash-mismatch error (pooch's ValueError) and leaves the cache
\* directory as it was; a fetch changes the cache only by placing a verified
\* download at the final path; and the retry that follows a failed
\* verification downloads again.
C8_MismatchLeavesNothing ==
    [][FetchResolved =>
          /\ (/\ last'.requests > 0 /\ last'.served \in Contents
              /\ HashOf[last'.served] # FetchedHash)
                => (last'.exc = "ValueError" /\ last'.ret = None /\ fs' = fs)
          /\ fs' # fs
                => /\ last'.exc = "none"
                   /\ HashOf[last'.served] = FetchedHash
                   /\ fs' = WriteFile(fs, FetchedPath, last'.served)
          /\ (/\ last.op = "fetch_corpus" /\ last.exc = "ValueError"
              /\ last'.name = last.name /\ last'.version = last.version)
                => last'.requests = 1]_vars

\* a failed verification with nothing at the final path
C8_Witness ==
    /\ last.op = "fetch_corpus" /\ last.exc = "ValueError"
    /\ last.name = PyStr("alpha") /\ last.version = None
    /\ ~Exists(fs, CacheFilename("alpha", "10"))

(***************************************************************************)
(* Properties of the schemas.                                              *)
(***************************************************************************)
HasNull(t, c) == \E i \in DOMAIN t.rows : c \notin DOMAIN t.rows[i]
HasEmptyReport(t) ==
    \E i \in DOMAIN t.rows : "report" \in DOMAIN t.rows[i] /\ t.rows[i]["report"] = <<>>
LacksAuthorOrReport(t) ==
    \/ ~HasColumns(t, {"author", "report"})
    \/ HasNull(t, "author")
    \/ HasNull(t, "report")

\* C26 (as stated): ReportsSchema rejects every table with an empty-string
\* report, as it rejects a table with a missing or null author or report.
C26_EmptyReportRejected ==
    (checked.schema = "reports"
        /\ (HasEmptyReport(checked.table) \/ LacksAuthorOrReport(checked.table)))
      => (checked.exc = "SchemaError" /\ checked.ret = None)

\* C26 (amended): ReportsSchema rejects a table exactly when author or report
\* is missing or null; a table whose only defect is an empty-string report is
\* returned as valid.
C26_OnlyMissingOrNullRejected ==
    checked.schema = "reports" =>
        IF LacksAuthorOrReport(checked.table)
        THEN checked.exc = "SchemaError" /\ checked.ret = None
        ELSE checked.exc = "none" /\ checked.ret = checked.table

C26_Witness ==
    /\ checked.schema = "reports"
    /\ HasEmptyReport(checked.table)
    /\ ~LacksAuthorOrReport(checked.table)
    /\ Len(checked.table.rows) = 2
    /\ checked.exc = "none"

(***************************************************************************)
(* Properties of concurrent load_registry calls.                           *)
(***************************************************************************)
\* C27: under every interleaving of the threads' steps, the global is unset
\* or refers to a completely constructed catalog, and a call that returns
\* hands out nothing else.
C27_NoPartialCatalog ==
    /\ registryCache # None => IsComplete(registryCache.v)
    /\ \A t \in DOMAIN threads :
          (threads[t].pc = "done" /\ threads[t].exc = "none" /\ threads[t].ret # None)
            => IsComplete(threads[t].ret.v)

\* both threads found the global unset and parsed the source, and the first
\* returned the object of the second
C27_Witness ==
    /\ DOMAIN threads = 1..MaxThreads
    /\ \A t \in DOMAIN threads : threads[t].pc = "done" /\ threads[t].exc = "none"
    /\ reads = 2
    /\ threads[1].id = 1
    /\ threads[1].ret # None
    /\ threads[1].ret.id = 2
    /\ IsComplete(threads[1].ret.v)

(***************************************************************************)
(* Properties of the registry lint.                                        *)
(***************************************************************************)
\* what the four checks say of a document, each taken on its own
LintSchema == ValidateSchema(lint.source.doc)
LintCollections ==
    ValidateAlphabeticalOrder(GetSection(lint.source.doc, "collections"), "Collections")
LintCorpora ==
    ValidateAlphabeticalOrder(GetSection(lint.source.doc, "corpora"), "Corpora")
LintReferences == ValidateCollectionReferences(lint.source.doc)
LintPasses ==
    /\ lint.source.state = "ok"
    /\ LintSchema.valid /\ LintCollections.valid /\ LintCorpora.valid
    /\ LintReferences.valid

\* the catalog invariants themselves, read off the document
WellFormedCatalog(doc) ==
    /\ {"collections", "corpora"} \subseteq DOMAIN doc
    /\ IsSortedSeq(doc.collections.order)
    /\ IsSortedSeq(doc.corpora.order)
    /\ \A n \in Keys(doc.corpora) :
          /\ {"latest", "versions", "column_map"} \subseteq DOMAIN doc.corpora.map[n]
          /\ doc.corpora.map[n]["latest"] \in Keys(doc.corpora.map[n]["versions"])
          /\ {"report", "author"} \subseteq DOMAIN doc.corpora.map[n]["column_map"]
    /\ \A c \in Keys(doc.collections) :
          Range(doc.collections.map[c]["corpora"]) \subseteq Keys(doc.corpora)

\* a failing run has run every check and lists the errors of each failing one
FullReport ==
    /\ lint.exc = "none"
    /\ lint.ran = Ran
    /\ lint.listed = LintSchema.errors \o LintCollections.errors
                        \o LintCorpora.errors \o LintReferences.errors
    /\ \A k \in {LintSchema, LintCollections, LintCorpora, LintReferences} :
          ~k.valid => \E i \in DOMAIN lint.listed : lint.listed[i] \in Range(k.errors)

RECURSIVE TaggedRows(_)
TaggedRows(parts) ==
    IF parts = <<>> THEN <<>>
    ELSE [i \in DOMAIN Head(parts).reports.rows |->
             [corpus |-> CorpusString(Head(parts).name, Head(parts).version),
              author |-> Head(parts).reports.rows[i]["author"],
              report |-> Head(parts).reports.rows[i]["report"]]]
         \o TaggedRows(Tail(parts))

\* C23: the table a build writes has exactly the columns corpus, author and
\* report, none of them null, and its rows are the reports of every corpus,
\* one row each, tagged with '<corpus_name>-v<version>' of their corpus.
C23_ThreeColumnAggregate ==
    (aggregate.runs > 0 /\ aggregate.exc = "none") =>
        /\ Range(aggregate.output.columns) = {"corpus", "author", "report"}
        /\ aggregate.output.rows = TaggedRows(aggregate.parts)

====
